---- MODULE Spec2Model ----
(***************************************************************************)
(* Model of the CUDA kernels package of topology-streams:                  *)
(*   persistence_h0.cu  UnionFind and topo_gpu_persistence_h0              *)
(*   persistence_h1.cu  topo_gpu_persistence_h1 (Z/2 column reduction)     *)
(*   utils.cu, density.cu  device-buffer handling of the GPU entry points  *)
(* Filtration values (C doubles) are modelled by small integers: only      *)
(* their order and equality are used by the code modelled here.            *)
(***************************************************************************)
EXTENDS Integers, Sequences, FiniteSets, TLC

\* ------------------------------------------------------------------ bounds
\* largest number of edges m given to topo_gpu_persistence_h0
MaxM == 2

\* largest number of edges m given to topo_gpu_persistence_h1
MaxE == 5
\* largest number of triangles t given to topo_gpu_persistence_h1
MaxT == 3
\* largest n, d, k given to the GPU entry points
MaxArg == 2

\* ------------------------------------------------------- input domains
\* the values n takes (0 is rejected by the argument check)
VertexCounts == {0, 1, 2, 3}
\* the filtration values vertices and edges take
FiltValues == {1, 2, 3}
\* the vertices of the complexes given to topo_gpu_persistence_h1
H1Vertices == {0, 1, 2, 3}
\* the filtration values of those vertices
H1FiltValues == {1, 2}
\* sizes around the limit topo_gpu_knn puts on k (utils.cu:232)
KnnLargeSizes == {256, 257, 258}

\* TopoError (types.h)
TOPO_SUCCESS == "TOPO_SUCCESS"
TOPO_ERROR_INVALID_ARGUMENT == "TOPO_ERROR_INVALID_ARGUMENT"
TOPO_ERROR_CUDA_MALLOC == "TOPO_ERROR_CUDA_MALLOC"
TOPO_ERROR_CUDA_MEMCPY == "TOPO_ERROR_CUDA_MEMCPY"
TOPO_ERROR_CUDA_KERNEL == "TOPO_ERROR_CUDA_KERNEL"
TOPO_ERROR_CUDA_NOT_AVAILABLE == "TOPO_ERROR_CUDA_NOT_AVAILABLE"
\* value of a ret variable while the call has not returned
NoReturn == "none"

VARIABLES
    \* ---- UnionFind (persistence_h0.cu:19-79)
    n,              \* UnionFind::n, the n argument of topo_gpu_persistence_h0
    vertex_filt,    \* vertex_filt[0..n-1]
    uf,             \* [parent, rank, birth], each a function on 0..n-1
    \* ---- topo_gpu_persistence_h0
    h0_pc,          \* "idle" | "call" | "done"
    h0_in,          \* the m input edges: sequence of [src, dst, filt]
    h0_null,        \* [required, edges]: whether one of vertex_filt, out_births,
                    \* out_deaths, out_count is null; whether one of edge_src,
                    \* edge_dst, edge_filt is null
    h0_device,      \* device_count > 0
    h0_edges,       \* the edges array after the sort
    h0_out_births,  \* out_births[0..], the values written, in index order
    h0_out_deaths,  \* out_deaths[0..]
    h0_out_count,   \* *out_count (-1 while unwritten)
    h0_zero,        \* history: merges with dying_birth = edge filt (line 191)
    h0_ret,         \* the TopoError returned
    \* ---- topo_gpu_knn / topo_gpu_density_filtration / topo_gpu_radius_query
    gpu_fn,         \* the entry point called: "knn" | "density" | "radius"
    gpu_args,       \* [n, d, k, radius]: the scalar arguments
    gpu_pc,         \* "idle" | "check" | "probe" | "run" | "done"
    gpu_step,       \* while running: index into GpuSteps of the next CUDA call
    gpu_live,       \* device buffers cudaMalloc returned and cudaFree has not freed
    gpu_frees,      \* the device buffers cudaFree was called on, in call order
    gpu_ret,        \* the TopoError returned
    \* ---- topo_gpu_persistence_h1
    h1_pc,          \* "idle" | "call" | "reduce" | "done" | "again"
    h1_in_edges,    \* the m input edges: sequence of [src, dst, filt]
    h1_null,        \* [out, edges, tris]: whether one of the output pointers,
                    \* of the edge arrays, of the triangle arrays is null
    h1_in_tris,     \* the t input triangles: sequence of [v0, v1, v2, filt]
    h1_edges,       \* the edges array after qsort; row r is h1_edges[r + 1]
    h1_tris,        \* the tris array after qsort; column c is h1_tris[c + 1]
    h1_red,         \* [boundary, pivot_col, col, count, births, deaths, xors]:
                    \* the state of the reduction loop (lines 129-171)
    h1_out_count,   \* *out_count (-1 while unwritten)
    h1_ret,         \* the TopoError returned
    h1_again,       \* the reduction loop run once more over the reduced columns
    \* ---- one block of knn_kernel
    knn_pc,         \* "idle" | "scan" | "done"
    knn_in,         \* [points, n, d, k, nthreads, query_id]
    knn_thr,        \* per thread: [at, i, dist, idx]: at is "loop" | "barrier",
                    \* i the loop index of line 173, dist/idx local_dist/local_idx
    knn_smem,       \* per thread: its slice [dist, idx] of s_dist/s_idx, or
                    \* <<>> before the thread has written it
    knn_out,        \* [dist, idx]: row query_id of out_dist/out_idx
    \* ---- radius_query_kernel
    rq_pc,          \* "idle" | "kernel" | "done"
    rq_in,          \* [points, query, n, d, radius]
    rq_thr,         \* per thread: [at, pos]: at is "start" | "write" | "exit"
    rq_count,       \* *d_out_count
    rq_indices,     \* d_out_indices: slot -> index written (-1: not written)
    rq_writes,      \* slot -> number of writes made to it
    rq_out,         \* [indices, count]: out_indices[0..h_count) and *out_count
    \* ---- one launch of density_filtration_kernel
    den_pc,         \* "idle" | "kernel" | "done"
    den_in,         \* kth_distances[0..n), as a sequence
    den_thr,        \* per thread: "start" | "exit"
    den_d_out,      \* d_out: index -> value, defined where a thread has written
    den_out,        \* out_filtration after the copy of line 57 (index -> value)
    \* ---- the submit-job Lambda handler
    sub_pc,         \* per invocation: "start" | "put" | "send" | "return" | "done"
    sub_job,        \* per invocation: the handler's local jobId (NoJob before line 26)
    sub_resp,       \* per invocation: the status code returned, NoResponse
                    \* while running, Throws when the promise rejects
    jobs_table,     \* the items of the DynamoDB jobs table
    queue,          \* the message bodies accepted by the SQS queue
    \* ---- the caller
    cancel_token    \* the caller's cancellation token: TRUE once cancellation
                    \* has been requested

ufVars == <<n, vertex_filt, uf>>
h0Vars == <<h0_pc, h0_in, h0_null, h0_device, h0_edges, h0_out_births, h0_out_deaths,
            h0_out_count, h0_zero, h0_ret>>
gpuVars == <<gpu_fn, gpu_args, gpu_pc, gpu_step, gpu_live, gpu_frees, gpu_ret>>
envVars == <<cancel_token>>
knnVars == <<knn_pc, knn_in, knn_thr, knn_smem, knn_out>>
rqVars == <<rq_pc, rq_in, rq_thr, rq_count, rq_indices, rq_writes, rq_out>>
h1Vars == <<h1_pc, h1_in_edges, h1_null, h1_in_tris, h1_edges, h1_tris, h1_red,
            h1_out_count, h1_ret, h1_again>>
denVars == <<den_pc, den_in, den_thr, den_d_out, den_out>>
subVars == <<sub_pc, sub_job, sub_resp, jobs_table, queue>>
vars == <<ufVars, h0Vars, gpuVars, h1Vars, envVars, knnVars, rqVars, denVars, subVars>>

\* ---------------------------------------- a function that is not called
UFIdle == n = 0 /\ vertex_filt = <<>> /\ uf = [parent |-> <<>>, rank |-> <<>>, birth |-> <<>>]

H0Idle ==
    /\ h0_pc = "idle" /\ h0_in = <<>> /\ h0_device = FALSE /\ h0_edges = <<>>
    /\ h0_null = [required |-> FALSE, edges |-> FALSE]
    /\ h0_out_births = <<>> /\ h0_out_deaths = <<>> /\ h0_out_count = -1
    /\ h0_zero = 0 /\ h0_ret = NoReturn

GpuIdle ==
    /\ gpu_fn = "none"
    /\ gpu_args = [n |-> 0, d |-> 0, k |-> 0, radius |-> 0, null_ptr |-> FALSE]
    /\ gpu_pc = "idle" /\ gpu_step = 1 /\ gpu_live = {} /\ gpu_frees = <<>> /\ gpu_ret = NoReturn

KnnIdle ==
    /\ knn_pc = "idle" /\ knn_in = <<>> /\ knn_thr = <<>> /\ knn_smem = <<>>
    /\ knn_out = <<>>

RqIdle ==
    /\ rq_pc = "idle" /\ rq_in = <<>> /\ rq_thr = <<>> /\ rq_count = 0
    /\ rq_indices = <<>> /\ rq_writes = <<>> /\ rq_out = <<>>

DenIdle ==
    /\ den_pc = "idle" /\ den_in = <<>> /\ den_thr = <<>> /\ den_d_out = <<>>
    /\ den_out = <<>>

SubIdle ==
    /\ sub_pc = <<>> /\ sub_job = <<>> /\ sub_resp = <<>>
    /\ jobs_table = {} /\ queue = {}

\* the reduction state before the loop has been set up
NoReduction ==
    [boundary |-> <<>>, pivot_col |-> <<>>, col |-> 0, count |-> 0,
     births |-> <<>>, deaths |-> <<>>, xors |-> 0]

H1Idle ==
    /\ h1_pc = "idle" /\ h1_in_edges = <<>> /\ h1_in_tris = <<>>
    /\ h1_null = [out |-> FALSE, edges |-> FALSE, tris |-> FALSE]
    /\ h1_edges = <<>> /\ h1_tris = <<>> /\ h1_red = NoReduction
    /\ h1_out_count = -1 /\ h1_ret = NoReturn /\ h1_again = NoReduction

\* ------------------------------------------------------------- helpers
Min(S) == CHOOSE x \in S : \A y \in S : x <= y
Max(S) == CHOOSE x \in S : \A y \in S : x >= y
\* sequences over S of length at most k
SeqUpTo(S, k) == UNION {[1..len -> S] : len \in 0..k}

\* ------------------------------------------------------------ UnionFind
\* UnionFind::init
uf_init(n_, vf) ==
    [parent |-> [i \in 0..(n_ - 1) |-> i],
     rank   |-> [i \in 0..(n_ - 1) |-> 0],
     birth  |-> [i \in 0..(n_ - 1) |-> vf[i]]]

\* find without its loop: x is returned as it is
find_no_loop(parent, x) == [parent |-> parent, root |-> x]

\* UnionFind::find with path halving: the parent array after the call and
\* the root returned
RECURSIVE find(_, _)
find(parent, x) ==
    IF parent[x] = x
    THEN [parent |-> parent, root |-> x]
    ELSE LET halved == [parent EXCEPT ![x] = parent[parent[x]]]
         IN  find(halved, halved[x])

\* line 55 with a test that never succeeds
same_root_never(ra, rb) == FALSE

\* line 55: if (ra == rb) return false
same_root(ra, rb) == ra = rb

\* lines 69-77 without the swap of line 71: the survivor by birth is always
\* made the parent
unite_without_rank_swap(u, par, ra, rb, dying, edge_filt) ==
    [uf |-> [parent |-> [par EXCEPT ![rb] = ra],
             rank |-> IF u.rank[ra] = u.rank[rb]
                      THEN [u.rank EXCEPT ![ra] = @ + 1]
                      ELSE u.rank,
             birth |-> u.birth],
     merged |-> TRUE, dying_birth |-> dying, death_filt |-> edge_filt]

\* lines 69-77 of unite: union by rank. ra is the root whose birth survives,
\* rb the other, dying the birth line 62 or 65 reported; the birth array is
\* not written (comment of lines 74-75).
unite_by_rank(u, par, ra, rb, dying, edge_filt) ==
    LET swap == u.rank[ra] < u.rank[rb]
        ra2 == IF swap THEN rb ELSE ra
        rb2 == IF swap THEN ra ELSE rb
    IN  [uf |-> [parent |-> [par EXCEPT ![rb2] = ra2],
                 rank |-> IF u.rank[ra2] = u.rank[rb2]
                          THEN [u.rank EXCEPT ![ra2] = @ + 1]
                          ELSE u.rank,
                 birth |-> u.birth],
         merged |-> TRUE, dying_birth |-> dying, death_filt |-> edge_filt]

\* lines 55-77 of unite, the two finds done: par is the parent array they
\* left, ra and rb the roots they returned
unite_roots(u, par, ra, rb, edge_filt) ==
    IF same_root(ra, rb)
    THEN [uf |-> [u EXCEPT !.parent = par], merged |-> FALSE,
          dying_birth |-> 0, death_filt |-> 0]
    ELSE \* the birth comparison (lines 60-67)
         IF u.birth[ra] < u.birth[rb]
         THEN unite_by_rank(u, par, ra, rb, u.birth[rb], edge_filt)
         ELSE unite_by_rank(u, par, rb, ra, u.birth[ra], edge_filt)

\* the second find (line 54), on the parent array the first one left
unite_second_find(u, ra, fb, edge_filt) ==
    unite_roots(u, fb.parent, ra, fb.root, edge_filt)

\* UnionFind::unite. merged is the bool returned; dying_birth and death_filt
\* are the reference parameters (left unassigned, here 0, when it returns
\* false: the caller does not read them then).
unite(u, a, b, edge_filt) ==
    LET fa == find(u.parent, a)
    IN  unite_second_find(u, fa.root, find(fa.parent, b), edge_filt)

\* the root of x, read without modifying the parent array
RECURSIVE RootOf(_, _)
RootOf(parent, x) == IF parent[x] = x THEN x ELSE RootOf(parent, parent[x])

\* ------------------------------------------------ topo_gpu_persistence_h0
\* edge_compare: negative, zero or positive as qsort expects
edge_compare(a, b) == IF a.filt < b.filt THEN -1 ELSE IF a.filt > b.filt THEN 1 ELSE 0

\* es rearranged by the permutation p: result[i] = es[p[i]]
Reorder(es, p) == [i \in 1..Len(es) |-> es[p[i]]]

\* the permutations of es that qsort may apply: no element comes before one
\* that compares smaller; the order of elements that compare equal is
\* unspecified
\* qsort(edges, m, sizeof(EdgeSortKey), edge_compare), line 179
qsort_edges(es) ==
    {Reorder(es, p) : p \in {q \in Permutations(1..Len(es)) :
        \A i, j \in 1..Len(es) : i < j => edge_compare(es[q[i]], es[q[j]]) <= 0}}

\* cub::DeviceRadixSort::SortPairs on (filt, index) followed by the reorder
\* loop: ascending by key, equal keys keep their input order
CubSortPairs(es) ==
    LET p == CHOOSE q \in Permutations(1..Len(es)) :
                 \A i, j \in 1..Len(es) : i < j =>
                     \/ es[q[i]].filt < es[q[j]].filt
                     \/ es[q[i]].filt = es[q[j]].filt /\ q[i] < q[j]
    IN  Reorder(es, p)

\* line 191 without its test: every merge is written
record_pair_always(dying_birth, death) == TRUE

\* what line 191 would be with the test the header comment words
\* ("where birth < death")
record_pair_if_less(dying_birth, death) == dying_birth < death

\* line 191: whether the merge is written to out_births/out_deaths
record_pair(dying_birth, death) == dying_birth # death

\* lines 190-196: what the loop does with the result r of unite; st = [uf,
\* births, deaths, count, zero], zero counting the merges whose dying_birth
\* equals the edge's filt
h0_record(st, r) ==
    LET rec == r.merged /\ record_pair(r.dying_birth, r.death_filt)
    IN  [uf |-> r.uf,
         births |-> IF rec THEN Append(st.births, r.dying_birth) ELSE st.births,
         deaths |-> IF rec THEN Append(st.deaths, r.death_filt) ELSE st.deaths,
         count |-> IF rec THEN st.count + 1 ELSE st.count,
         zero |-> IF r.merged /\ r.dying_birth = r.death_filt
                  THEN st.zero + 1 ELSE st.zero]

\* the loop of lines 186-197 from index i on
RECURSIVE h0_loop(_, _, _)
h0_loop(st, es, i) ==
    IF i > Len(es) THEN st
    ELSE h0_loop(h0_record(st, unite(st.uf, es[i].src, es[i].dst, es[i].filt)),
                 es, i + 1)

\* lines 182-199 on the sorted array es
h0_run(n_, vf, es) ==
    h0_loop([uf |-> uf_init(n_, vf), births |-> <<>>, deaths |-> <<>>,
             count |-> 0, zero |-> 0], es, 1)

\* the edges an input may hold: endpoints in [0, n), either orientation,
\* self-loops and repeats included
EdgeInputs(n_) == [src : 0..(n_ - 1), dst : 0..(n_ - 1), filt : FiltValues]

\* a call of topo_gpu_persistence_h0. The code never
\* compares two vertex indices (it only tests roots for equality), so
\* renaming the vertices changes no output value: the calls enumerated are
\* those whose vertices are numbered by non-decreasing vertex_filt.
InitH0 ==
    /\ n \in VertexCounts
    /\ vertex_filt \in {vf \in [0..(n - 1) -> FiltValues] :
                          \A v, w \in 0..(n - 1) : v < w => vf[v] <= vf[w]}
    /\ uf = uf_init(n, vertex_filt)
    /\ h0_pc = "call"
    /\ h0_in \in SeqUpTo(EdgeInputs(n), MaxM)
    /\ h0_null \in [required : BOOLEAN, edges : BOOLEAN]
    /\ h0_device = FALSE /\ h0_edges = <<>>
    /\ h0_out_births = <<>> /\ h0_out_deaths = <<>> /\ h0_out_count = -1
    /\ h0_zero = 0 /\ h0_ret = NoReturn
    /\ GpuIdle /\ H1Idle
    /\ cancel_token = FALSE
    /\ DenIdle /\ SubIdle
    /\ KnnIdle /\ RqIdle

\* lines 102-104: a required pointer is null, or n <= 0
H0Invalid ==
    /\ h0_pc = "call" /\ (h0_null.required \/ n <= 0)
    /\ h0_pc' = "done" /\ h0_ret' = TOPO_ERROR_INVALID_ARGUMENT
    /\ UNCHANGED <<ufVars, h0_in, h0_null, h0_device, h0_edges, h0_out_births,
                   h0_out_deaths, h0_out_count, h0_zero, gpuVars, h1Vars, envVars,
                   knnVars, rqVars, denVars, subVars>>

\* the tests of lines 102-104 passed
H0ArgsOk == h0_pc = "call" /\ ~h0_null.required /\ n > 0

\* the test of line 108 placed after the one of line 109
empty_before_edge_pointers(m, null_edges) == m = 0 /\ ~null_edges

\* line 108 is reached before line 109: m == 0 returns whatever the edge
\* pointers are
empty_return(m, null_edges) == m = 0

\* lines 106-108: *out_count = 0; m == 0
H0Empty ==
    /\ H0ArgsOk /\ empty_return(Len(h0_in), h0_null.edges)
    /\ h0_out_count' = 0
    /\ h0_pc' = "done" /\ h0_ret' = TOPO_SUCCESS
    /\ UNCHANGED <<ufVars, h0_in, h0_null, h0_device, h0_edges, h0_out_births,
                   h0_out_deaths, h0_zero, gpuVars, h1Vars, envVars, knnVars, rqVars,
                   denVars, subVars>>

\* lines 106-109: *out_count = 0; m != 0 and an edge pointer is null
H0NullEdges ==
    /\ H0ArgsOk /\ ~empty_return(Len(h0_in), h0_null.edges) /\ h0_null.edges
    /\ h0_out_count' = 0
    /\ h0_pc' = "done" /\ h0_ret' = TOPO_ERROR_INVALID_ARGUMENT
    /\ UNCHANGED <<ufVars, h0_in, h0_null, h0_device, h0_edges, h0_out_births,
                   h0_out_deaths, h0_zero, gpuVars, h1Vars, envVars, knnVars, rqVars,
                   denVars, subVars>>

\* lines 182-202 once the edges array is sorted
H0Finish(es) ==
    LET st == h0_run(n, vertex_filt, es)
    IN  /\ h0_edges' = es
        /\ uf' = st.uf
        /\ h0_out_births' = st.births
        /\ h0_out_deaths' = st.deaths
        /\ h0_out_count' = st.count
        /\ h0_zero' = st.zero
        /\ h0_pc' = "done" /\ h0_ret' = TOPO_SUCCESS
        /\ UNCHANGED <<n, vertex_filt, h0_in, h0_null, gpuVars, h1Vars, envVars, knnVars,
                       rqVars, denVars, subVars>>

\* device_count > 0: CUB sort path (lines 125-176)
H0Gpu ==
    /\ H0ArgsOk /\ Len(h0_in) > 0 /\ ~h0_null.edges
    /\ h0_device' = TRUE
    /\ H0Finish(CubSortPairs(h0_in))

\* device_count == 0: qsort path (lines 177-180)
H0Cpu ==
    /\ H0ArgsOk /\ Len(h0_in) > 0 /\ ~h0_null.edges
    /\ h0_device' = FALSE
    /\ \E es \in qsort_edges(h0_in) : H0Finish(es)

NextH0 == H0Invalid \/ H0Empty \/ H0NullEdges \/ H0Gpu \/ H0Cpu

SpecH0 == InitH0 /\ [][NextH0]_vars

\* --------------------------------------------- UnionFind used on its own
InitUF ==
    /\ n \in VertexCounts \ {0}
    /\ vertex_filt \in [0..(n - 1) -> FiltValues]
    /\ uf = uf_init(n, vertex_filt)
    /\ H0Idle /\ GpuIdle /\ H1Idle
    /\ cancel_token = FALSE
    /\ DenIdle /\ SubIdle
    /\ KnnIdle /\ RqIdle

UFUnite ==
    \E a, b \in 0..(n - 1), f \in FiltValues :
        /\ uf' = unite(uf, a, b, f).uf
        /\ UNCHANGED <<n, vertex_filt, h0Vars, gpuVars, h1Vars, envVars, knnVars, rqVars,
                       denVars, subVars>>

UFFind ==
    \E x \in 0..(n - 1) :
        /\ uf' = [uf EXCEPT !.parent = find(uf.parent, x).parent]
        /\ UNCHANGED <<n, vertex_filt, h0Vars, gpuVars, h1Vars, envVars, knnVars, rqVars,
                       denVars, subVars>>

NextUF == UFUnite \/ UFFind

SpecUF == InitUF /\ [][NextUF]_vars

\* the values n takes where trees of depth 2 and roots of rank 2 are wanted
DeepVertexCounts == {4}

InitUFDeep ==
    /\ n \in DeepVertexCounts
    /\ vertex_filt \in [0..(n - 1) -> FiltValues]
    /\ uf = uf_init(n, vertex_filt)
    /\ H0Idle /\ GpuIdle /\ H1Idle /\ KnnIdle /\ RqIdle /\ DenIdle /\ SubIdle
    /\ cancel_token = FALSE

SpecUFDeep == InitUFDeep /\ [][NextUF]_vars

\* the vertices of the tree rooted at r
Component(parent, r) == {v \in DOMAIN parent : RootOf(parent, v) = r}

\* C1: for every root r, birth[r] is the minimum vertex_filt over the
\* vertices of r's component.
C1_RootBirthIsMin ==
    \A r \in DOMAIN uf.parent :
        uf.parent[r] = r =>
            uf.birth[r] = Min({vertex_filt[v] : v \in Component(uf.parent, r)})

\* ---------------------------------------------------- claims about H0
H0Returned == h0_pc = "done" /\ h0_ret = TOPO_SUCCESS

\* the vertices reachable from the set S along the input edges, taken as
\* undirected
RECURSIVE ReachFrom(_)
ReachFrom(S) ==
    LET T == S \cup {h0_in[i].dst : i \in {j \in 1..Len(h0_in) : h0_in[j].src \in S}}
               \cup {h0_in[i].src : i \in {j \in 1..Len(h0_in) : h0_in[j].dst \in S}}
    IN  IF T = S THEN S ELSE ReachFrom(T)

\* number of connected components of the graph formed by all the edges
NumComponents == Cardinality({ReachFrom({v}) : v \in 0..(n - 1)})

\* C2: every pair written by topo_gpu_persistence_h0 has birth < death.
C2_PairsBirthBeforeDeath ==
    H0Returned =>
        \A i \in 1..Len(h0_out_births) : h0_out_births[i] < h0_out_deaths[i]

\* C4 (as claimed): out_count equals n minus the number of connected
\* components of the graph formed by all the edges.
C4_CountIsNMinusComponents ==
    H0Returned => h0_out_count = n - NumComponents

\* C4 (amended): out_count equals n minus the number of connected components
\* minus the number of merges whose dying birth equals the edge filt, which
\* line 191 does not record; so out_count <= n - components.
C4_CountPlusZeroMerges ==
    H0Returned =>
        /\ h0_out_count + h0_zero = n - NumComponents
        /\ h0_out_count <= n - NumComponents

C4_Witness ==
    /\ H0Returned /\ h0_zero > 0 /\ h0_out_count > 0
    /\ NumComponents = 1 /\ n > 2

\* C5: at most n-1 pairs are written: out_count <= n-1 and no index >= n-1
\* of out_births/out_deaths is written, duplicate edges and self-loops
\* included.
C5_AtMostNMinusOnePairs ==
    H0Returned =>
        /\ h0_out_count <= n - 1
        /\ Len(h0_out_births) <= n - 1
        /\ Len(h0_out_deaths) <= n - 1

\* a run that writes n-1 pairs from a list holding a self-loop or a
\* repeated edge
C5_Witness ==
    /\ H0Returned /\ h0_out_count = n - 1 /\ n > 1
    /\ \/ \E i \in 1..Len(h0_in) : h0_in[i].src = h0_in[i].dst
       \/ \E i, j \in 1..Len(h0_in) :
             i < j /\ {h0_in[i].src, h0_in[i].dst} = {h0_in[j].src, h0_in[j].dst}

\* C6: the (birth, death) sequence is a function of the input alone: every
\* run writes what the run that keeps equal-filt edges in input order writes.
C6_OutputIndependentOfTieOrder ==
    (H0Returned /\ Len(h0_in) > 0) =>
        LET ref == h0_run(n, vertex_filt, CubSortPairs(h0_in))
        IN  /\ h0_out_births = ref.births
            /\ h0_out_deaths = ref.deaths

\* C13: the run with no device present (device_count == 0, qsort path)
\* produces the same out_count and the same (birth, death) sequence as the
\* run of the same input with a device present (CUB sort path).
C13_NoDeviceRunEqualsDeviceRun ==
    (H0Returned /\ Len(h0_in) > 0 /\ ~h0_device) =>
        LET device_run == h0_run(n, vertex_filt, CubSortPairs(h0_in))
        IN  /\ h0_out_count = device_run.count
            /\ \A i \in 1..h0_out_count :
                  /\ h0_out_births[i] = device_run.births[i]
                  /\ h0_out_deaths[i] = device_run.deaths[i]

\* (src, dst) lexicographic order
LexLeq(a, b) == a.src < b.src \/ (a.src = b.src /\ a.dst <= b.dst)

\* C7: edges are processed by filt ascending, then lexicographic on
\* (src, dst): among edges of equal filt the lexicographically smaller one
\* comes first.
C7_TiesInLexOrder ==
    (H0Returned /\ Len(h0_in) > 0) =>
        \A i, j \in 1..Len(h0_edges) :
            i < j => /\ h0_edges[i].filt <= h0_edges[j].filt
                     /\ (h0_edges[i].filt = h0_edges[j].filt
                            => LexLeq(h0_edges[i], h0_edges[j]))

\* ------------------------------------ device buffers of the GPU entry points
\* the CUDA calls each entry point makes after the device probe, in order
Malloc(b) == [op |-> "malloc", buf |-> b]
Memcpy    == [op |-> "memcpy", buf |-> "-"]
Launch    == [op |-> "kernel", buf |-> "-"]
Free(b)   == [op |-> "free", buf |-> b]

\* topo_gpu_knn, utils.cu:246-271
KnnSteps ==
    <<Malloc("d_points"), Malloc("d_out_dist"), Malloc("d_out_idx"),
      Memcpy, Launch, Memcpy, Memcpy,
      Free("d_points"), Free("d_out_dist"), Free("d_out_idx")>>

\* topo_gpu_density_filtration, density.cu:42-60
DensitySteps ==
    <<Malloc("d_kth"), Malloc("d_out"), Memcpy, Launch, Memcpy,
      Free("d_kth"), Free("d_out")>>

\* topo_gpu_radius_query, utils.cu:74-107 (cudaMemset is checked by
\* CHECK_CUDA_MEMCPY like the copies)
RadiusSteps ==
    <<Malloc("d_points"), Malloc("d_query"), Malloc("d_out_indices"),
      Malloc("d_out_count"), Memcpy, Memcpy, Memcpy, Launch, Memcpy, Memcpy,
      Free("d_points"), Free("d_query"), Free("d_out_indices"),
      Free("d_out_count")>>

GpuSteps(fn) ==
    CASE fn = "knn" -> KnnSteps
      [] fn = "density" -> DensitySteps
      [] fn = "radius" -> RadiusSteps

\* the argument checks of topo_gpu_knn without the test of line 232
GpuArgsValid_without_stack_limit(fn, a) ==
    /\ ~a.null_ptr
    /\ CASE fn = "knn" -> ~(a.n <= 0 \/ a.d <= 0 \/ a.k <= 0 \/ a.k >= a.n)
         [] fn = "density" -> ~(a.n <= 0)
         [] fn = "radius" -> ~(a.n <= 0 \/ a.d <= 0 \/ a.radius < 0)

\* the argument checks: utils.cu:230-232 (knn), density.cu:31-32,
\* utils.cu:58-59 (radius query); null_ptr says one of the pointers tested
\* is null
GpuArgsValid(fn, a) ==
    /\ ~a.null_ptr
    /\ CASE fn = "knn" -> ~(a.n <= 0 \/ a.d <= 0 \/ a.k <= 0 \/ a.k >= a.n) /\ ~(a.k > 256)
         [] fn = "density" -> ~(a.n <= 0)
         [] fn = "radius" -> ~(a.n <= 0 \/ a.d <= 0 \/ a.radius < 0)

\* a call of one of the three entry points; d and k are passed where the
\* entry point takes them, and topo_gpu_knn is also called with sizes
\* around its limit on k
InitGpu ==
    /\ gpu_fn \in {"knn", "density", "radius"}
    /\ gpu_args \in [n : (-1)..MaxArg \cup KnnLargeSizes, d : (-1)..MaxArg,
                     k : (-1)..MaxArg \cup KnnLargeSizes, radius : {-1, 0, 1},
                     null_ptr : BOOLEAN]
    /\ gpu_fn = "knn" => gpu_args.radius = 0
    /\ gpu_fn = "density" =>
          gpu_args.radius = 0 /\ gpu_args.d = 0 /\ gpu_args.k = 0 /\ gpu_args.n <= MaxArg
    /\ gpu_fn = "radius" => gpu_args.k = 0 /\ gpu_args.n <= MaxArg
    /\ gpu_pc = "check" /\ gpu_step = 1 /\ gpu_live = {} /\ gpu_frees = <<>> /\ gpu_ret = NoReturn
    /\ UFIdle /\ H0Idle /\ H1Idle
    /\ cancel_token = FALSE
    /\ DenIdle /\ SubIdle
    /\ KnnIdle /\ RqIdle

GpuReturn(err) == gpu_pc' = "done" /\ gpu_ret' = err

\* the argument check at the top of the entry point
GpuCheckArgs ==
    /\ gpu_pc = "check"
    /\ IF GpuArgsValid(gpu_fn, gpu_args)
       THEN gpu_pc' = "probe" /\ gpu_ret' = gpu_ret
       ELSE GpuReturn(TOPO_ERROR_INVALID_ARGUMENT)
    /\ UNCHANGED <<gpu_fn, gpu_args, gpu_step, gpu_live, gpu_frees, ufVars, h0Vars,
                   h1Vars, envVars, knnVars, rqVars, denVars, subVars>>

\* cudaGetDeviceCount and the test device_count == 0
GpuProbe ==
    /\ gpu_pc = "probe"
    /\ \E device_count \in {0, 1} :
          IF device_count = 0
          THEN GpuReturn(TOPO_ERROR_CUDA_NOT_AVAILABLE)
          ELSE gpu_pc' = "run" /\ gpu_ret' = gpu_ret
    /\ UNCHANGED <<gpu_fn, gpu_args, gpu_step, gpu_live, gpu_frees, ufVars, h0Vars,
                   h1Vars, envVars, knnVars, rqVars, denVars, subVars>>

GpuAt(op) ==
    /\ gpu_pc = "run"
    /\ gpu_step \in 1..Len(GpuSteps(gpu_fn))
    /\ GpuSteps(gpu_fn)[gpu_step].op = op

\* what CHECK_CUDA does when cudaMalloc fails (utils.cu:21-24, 118-121,
\* density.cu:5-8): return at once
on_malloc_failure ==
    /\ GpuReturn(TOPO_ERROR_CUDA_MALLOC)
    /\ UNCHANGED <<gpu_step, gpu_live, gpu_frees>>

\* CHECK_CUDA_MEMCPY written with CHECK_CUDA's return value
on_memcpy_failure_as_malloc ==
    /\ GpuReturn(TOPO_ERROR_CUDA_MALLOC)
    /\ UNCHANGED <<gpu_step, gpu_live, gpu_frees>>

\* what CHECK_CUDA_MEMCPY does when the copy fails: return at once
on_memcpy_failure ==
    /\ GpuReturn(TOPO_ERROR_CUDA_MEMCPY)
    /\ UNCHANGED <<gpu_step, gpu_live, gpu_frees>>

\* the kernel-error branch (utils.cu:91-97, 259-264, density.cu:51-55):
\* cudaFree on every buffer of the entry point, then return
on_kernel_failure ==
    LET bufs == SelectSeq(GpuSteps(gpu_fn), LAMBDA st : st.op = "malloc")
        names == [i \in 1..Len(bufs) |-> bufs[i].buf]
    IN  /\ gpu_live' = gpu_live \ {names[i] : i \in 1..Len(names)}
        /\ gpu_frees' = gpu_frees \o names
        /\ GpuReturn(TOPO_ERROR_CUDA_KERNEL)
        /\ UNCHANGED gpu_step

\* CHECK_CUDA(cudaMalloc(&buf, bytes))
GpuMalloc ==
    /\ GpuAt("malloc")
    /\ \E ok \in BOOLEAN :
          IF ok
          THEN /\ gpu_live' = gpu_live \cup {GpuSteps(gpu_fn)[gpu_step].buf}
               /\ gpu_step' = gpu_step + 1
               /\ UNCHANGED <<gpu_pc, gpu_frees, gpu_ret>>
          ELSE on_malloc_failure
    /\ UNCHANGED <<gpu_fn, gpu_args, ufVars, h0Vars, h1Vars, envVars, knnVars, rqVars,
                   denVars, subVars>>

\* CHECK_CUDA_MEMCPY(cudaMemcpy(...)) and CHECK_CUDA_MEMCPY(cudaMemset(...))
GpuMemcpy ==
    /\ GpuAt("memcpy")
    /\ \E ok \in BOOLEAN :
          IF ok
          THEN gpu_step' = gpu_step + 1 /\ UNCHANGED <<gpu_pc, gpu_live, gpu_frees, gpu_ret>>
          ELSE on_memcpy_failure
    /\ UNCHANGED <<gpu_fn, gpu_args, ufVars, h0Vars, h1Vars, envVars, knnVars, rqVars,
                   denVars, subVars>>

\* the kernel launch and the cudaGetLastError test after it
GpuLaunch ==
    /\ GpuAt("kernel")
    /\ \E ok \in BOOLEAN :
          IF ok
          THEN gpu_step' = gpu_step + 1 /\ UNCHANGED <<gpu_pc, gpu_live, gpu_frees, gpu_ret>>
          ELSE on_kernel_failure
    /\ UNCHANGED <<gpu_fn, gpu_args, ufVars, h0Vars, h1Vars, envVars, knnVars, rqVars,
                   denVars, subVars>>

\* cudaFree(buf) on the success path
GpuFree ==
    /\ GpuAt("free")
    /\ gpu_live' = gpu_live \ {GpuSteps(gpu_fn)[gpu_step].buf}
    /\ gpu_frees' = Append(gpu_frees, GpuSteps(gpu_fn)[gpu_step].buf)
    /\ gpu_step' = gpu_step + 1
    /\ UNCHANGED <<gpu_fn, gpu_args, gpu_pc, gpu_ret, ufVars, h0Vars, h1Vars, envVars,
                   knnVars, rqVars, denVars, subVars>>

\* return TOPO_SUCCESS
GpuSuccess ==
    /\ gpu_pc = "run" /\ gpu_step = Len(GpuSteps(gpu_fn)) + 1
    /\ GpuReturn(TOPO_SUCCESS)
    /\ UNCHANGED <<gpu_fn, gpu_args, gpu_step, gpu_live, gpu_frees, ufVars, h0Vars,
                   h1Vars, envVars, knnVars, rqVars, denVars, subVars>>

NextGpu ==
    GpuCheckArgs \/ GpuProbe \/ GpuMalloc \/ GpuMemcpy \/ GpuLaunch \/ GpuFree
        \/ GpuSuccess

SpecGpu == InitGpu /\ [][NextGpu]_vars

\* C10: every successful cudaMalloc is matched by exactly one cudaFree on
\* every exit path: when the entry point has returned, no device buffer it
\* allocated is still live and none was freed twice.
C10_NoBufferLiveAtReturn ==
    gpu_pc = "done" =>
        /\ gpu_live = {}
        /\ \A i, j \in 1..Len(gpu_frees) : gpu_frees[i] = gpu_frees[j] => i = j

\* C14 as claimed: topo_gpu_knn returns InvalidArgument exactly when a
\* pointer is null or n <= 0, d <= 0, k <= 0 or k >= n; every k with
\* 1 <= k < n is accepted.
C14_InvalidExactlyOnFourTests ==
    (gpu_fn = "knn" /\ gpu_pc # "check") =>
        (gpu_ret = TOPO_ERROR_INVALID_ARGUMENT
            <=> \/ gpu_args.null_ptr
                \/ gpu_args.n <= 0 \/ gpu_args.d <= 0
                \/ gpu_args.k <= 0 \/ gpu_args.k >= gpu_args.n)

\* C14 amended: topo_gpu_knn returns InvalidArgument exactly when a pointer
\* is null or n <= 0, d <= 0, k <= 0, k >= n or k > 256; the check precedes
\* the device probe, so an invalid call never returns
\* TOPO_ERROR_CUDA_NOT_AVAILABLE and a valid one never InvalidArgument.
C14_InvalidExactlyOnFiveTests ==
    (gpu_fn = "knn" /\ gpu_pc # "check") =>
        (gpu_ret = TOPO_ERROR_INVALID_ARGUMENT
            <=> \/ gpu_args.null_ptr
                \/ gpu_args.n <= 0 \/ gpu_args.d <= 0
                \/ gpu_args.k <= 0 \/ gpu_args.k >= gpu_args.n
                \/ gpu_args.k > 256)

\* a call with 256 < k < n was refused
C14_Witness ==
    /\ gpu_fn = "knn" /\ gpu_pc = "done" /\ gpu_ret = TOPO_ERROR_INVALID_ARGUMENT
    /\ ~gpu_args.null_ptr /\ gpu_args.d > 0
    /\ gpu_args.k > 256 /\ gpu_args.k < gpu_args.n

\* the error class of a CUDA call that fails
ErrorClass(op) ==
    CASE op = "malloc" -> TOPO_ERROR_CUDA_MALLOC
      [] op = "memcpy" -> TOPO_ERROR_CUDA_MEMCPY
      [] op = "kernel" -> TOPO_ERROR_CUDA_KERNEL

\* C11: in each entry point the first failing step aborts the call and its
\* class is returned: a step that ends the call before the last one returns
\* the class of the CUDA call at that step (allocation, copy, kernel launch),
\* TOPO_SUCCESS is returned only after every step has run, and once the call
\* has returned no further step runs.
C11_FirstFailureReturnsItsClass ==
    [][/\ gpu_pc = "done" => UNCHANGED gpuVars
       /\ (gpu_pc = "run" /\ gpu_pc' = "done") =>
             /\ gpu_step' = gpu_step
             /\ IF gpu_step <= Len(GpuSteps(gpu_fn))
                THEN gpu_ret' = ErrorClass(GpuSteps(gpu_fn)[gpu_step].op)
                ELSE gpu_ret' = TOPO_SUCCESS
       /\ (gpu_pc = "run" /\ gpu_pc' = "run") => gpu_step' = gpu_step + 1]_vars

\* a copy failed after the allocations had succeeded
C11_Witness ==
    /\ gpu_pc = "done" /\ gpu_ret = TOPO_ERROR_CUDA_MEMCPY
    /\ gpu_step <= Len(GpuSteps(gpu_fn))
    /\ GpuSteps(gpu_fn)[gpu_step].op = "memcpy"

\* ------------------------------------------------ topo_gpu_persistence_h1
\* tri_compare and edge_info_compare: filt only
tri_compare(a, b) == IF a.filt < b.filt THEN -1 ELSE IF a.filt > b.filt THEN 1 ELSE 0
edge_info_compare(a, b) == IF a.filt < b.filt THEN -1 ELSE IF a.filt > b.filt THEN 1 ELSE 0

\* qsort(edges, m, sizeof(EdgeInfo), edge_info_compare), persistence_h1.cu:82
qsort_edge_info(es) ==
    {Reorder(es, p) : p \in {q \in Permutations(1..Len(es)) :
        \A i, j \in 1..Len(es) : i < j => edge_info_compare(es[q[i]], es[q[j]]) <= 0}}

\* qsort(tris, t, sizeof(TriSortKey), tri_compare), persistence_h1.cu:94
qsort_tris(ts) ==
    {Reorder(ts, p) : p \in {q \in Permutations(1..Len(ts)) :
        \A i, j \in 1..Len(ts) : i < j => tri_compare(ts[q[i]], ts[q[j]]) <= 0}}

\* find_edge: the first index i (from 0) whose edge joins u and v, in either
\* stored orientation, or -1
find_edge(sorted_edges, u, v) ==
    LET lo == IF u > v THEN v ELSE u
        hi == IF u > v THEN u ELSE v
        hits == {i \in 1..Len(sorted_edges) :
                    LET su == sorted_edges[i].src
                        sv == sorted_edges[i].dst
                    IN  IF su > sv THEN sv = lo /\ su = hi
                                   ELSE su = lo /\ sv = hi}
    IN  IF hits = {} THEN -1 ELSE Min(hits) - 1

\* lines 118-126 left out: the entries stay in the order of the lookups
left_as_found(c) == c

\* lines 118-126: the entries of a column put in descending order
RECURSIVE sort_descending(_)
sort_descending(c) ==
    IF c = <<>> THEN <<>>
    ELSE LET k == CHOOSE i \in 1..Len(c) : \A j \in 1..Len(c) : c[i] >= c[j]
         IN  <<c[k]>> \o sort_descending(SubSeq(c, 1, k - 1) \o SubSeq(c, k + 1, Len(c)))

\* lines 103-126: the boundary column of triangle tri
boundary_column(sorted_edges, tri) ==
    LET found == <<find_edge(sorted_edges, tri.v0, tri.v1),
                   find_edge(sorted_edges, tri.v0, tri.v2),
                   find_edge(sorted_edges, tri.v1, tri.v2)>>
    IN  sort_descending(SelectSeq(found, LAMBDA eidx : eidx >= 0))

\* lines 166-168 left out: the merged list is dropped and the column kept
merge_discarded(a, b) == a

\* lines 150-164: the merge of two descending lists that drops the entries
\* present in both
RECURSIVE merge_columns(_, _)
merge_columns(a, b) ==
    IF a = <<>> THEN b
    ELSE IF b = <<>> THEN a
    ELSE IF Head(a) > Head(b) THEN <<Head(a)>> \o merge_columns(Tail(a), b)
    ELSE IF Head(a) < Head(b) THEN <<Head(b)>> \o merge_columns(a, Tail(b))
    ELSE merge_columns(Tail(a), Tail(b))

\* a pivot read from the wrong end of the column
pivot_row_last(column) == column[Len(column)]

\* line 137: the pivot of a non-empty column is its first entry
pivot_row(column) == column[1]

\* line 138 with a test that always succeeds
pivot_unowned_always(pivot_col, pivot) == TRUE

\* line 138: if (pivot_col[pivot] < 0)
pivot_unowned(pivot_col, pivot) == pivot_col[pivot] < 0

\* lines 129-134: the reduction state before the first column
reduction_start(bnd, m, t) ==
    [boundary |-> bnd, pivot_col |-> [r \in 0..(m - 1) |-> -1], col |-> 0,
     count |-> 0, births |-> <<>>, deaths |-> <<>>, xors |-> 0]

\* the reduction with the inner loop written as "if": the column is left
\* after one symmetric difference
h1_step_single_xor(st, es, ts) ==
    LET c == st.boundary[st.col]
    IN  IF Len(c) = 0 THEN [st EXCEPT !.col = @ + 1]
        ELSE LET pivot == pivot_row(c)
             IN  IF pivot_unowned(st.pivot_col, pivot)
                 THEN [st EXCEPT !.pivot_col[pivot] = st.col,
                                 !.births = Append(@, es[pivot + 1].filt),
                                 !.deaths = Append(@, ts[st.col + 1].filt),
                                 !.count = @ + 1,
                                 !.col = @ + 1]
                 ELSE LET other == st.pivot_col[pivot]
                      IN  [st EXCEPT !.boundary[st.col] =
                                         merge_columns(c, st.boundary[other]),
                                     !.xors = @ + 1,
                                     !.col = @ + 1]

\* one step of the loops of lines 135-171 on column st.col < t: leave an
\* empty column, register an unowned pivot and write the pair, or replace
\* the column by its symmetric difference with the owner of its pivot.
\* xors counts the symmetric differences made.
h1_step(st, es, ts) ==
    LET c == st.boundary[st.col]
    IN  IF Len(c) = 0 THEN [st EXCEPT !.col = @ + 1]
        ELSE LET pivot == pivot_row(c)
             IN  IF pivot_unowned(st.pivot_col, pivot)
                 THEN [st EXCEPT !.pivot_col[pivot] = st.col,
                                 !.births = Append(@, es[pivot + 1].filt),
                                 !.deaths = Append(@, ts[st.col + 1].filt),
                                 !.count = @ + 1,
                                 !.col = @ + 1]
                 ELSE LET other == st.pivot_col[pivot]
                      IN  [st EXCEPT !.boundary[st.col] =
                                         merge_columns(c, st.boundary[other]),
                                     !.xors = @ + 1]

\* the loops of lines 135-171 run to their end
RECURSIVE h1_reduce(_, _, _)
h1_reduce(st, es, ts) ==
    IF st.col >= Len(ts) THEN st ELSE h1_reduce(h1_step(st, es, ts), es, ts)

\* the complexes given to topo_gpu_persistence_h1: any at most MaxE edges
\* and at most MaxT triangles on H1Vertices, with the upper-star filt of a
\* vertex filtration vf (filt = the largest vf of the simplex's vertices).
\* qsort leaves equal-filt elements in any order, so the order of the input
\* arrays does not change the set of runs: they are listed in
\* lexicographic order. An edge {u, v}, u < v, is stored as (u, v) when
\* u + v is even and as (v, u) when it is odd.
AllEdges == {e \in H1Vertices \X H1Vertices : e[1] < e[2]}
AllTris == {tr \in H1Vertices \X H1Vertices \X H1Vertices : tr[1] < tr[2] /\ tr[2] < tr[3]}

LexLess(x, y) ==
    \E k \in 1..Len(x) : x[k] < y[k] /\ \A j \in 1..(k - 1) : x[j] = y[j]

RECURSIVE LexList(_)
LexList(S) ==
    IF S = {} THEN <<>>
    ELSE LET x == CHOOSE y \in S : \A z \in S \ {y} : LexLess(y, z)
         IN  <<x>> \o LexList(S \ {x})

EdgeRecord(e, vf) ==
    LET f == IF vf[e[1]] > vf[e[2]] THEN vf[e[1]] ELSE vf[e[2]]
    IN  IF (e[1] + e[2]) % 2 = 0
        THEN [src |-> e[1], dst |-> e[2], filt |-> f]
        ELSE [src |-> e[2], dst |-> e[1], filt |-> f]

TriRecord(tr, vf) ==
    [v0 |-> tr[1], v1 |-> tr[2], v2 |-> tr[3],
     filt |-> Max({vf[tr[1]], vf[tr[2]], vf[tr[3]]})]

InitH1 ==
    /\ \E vf \in {f \in [H1Vertices -> H1FiltValues] :
                    \A v, w \in H1Vertices : v < w => f[v] <= f[w]},
          E \in {S \in SUBSET AllEdges : Cardinality(S) <= MaxE},
          T \in {S \in SUBSET AllTris : Cardinality(S) <= MaxT} :
          /\ h1_in_edges = [i \in 1..Cardinality(E) |-> EdgeRecord(LexList(E)[i], vf)]
          /\ h1_in_tris = [i \in 1..Cardinality(T) |-> TriRecord(LexList(T)[i], vf)]
    /\ h1_null \in [out : BOOLEAN, edges : BOOLEAN, tris : BOOLEAN]
    /\ h1_pc = "call"
    /\ h1_edges = <<>> /\ h1_tris = <<>> /\ h1_red = NoReduction
    /\ h1_out_count = -1 /\ h1_ret = NoReturn /\ h1_again = NoReduction
    /\ UFIdle /\ H0Idle /\ GpuIdle
    /\ cancel_token = FALSE
    /\ DenIdle /\ SubIdle
    /\ KnnIdle /\ RqIdle

\* line 67: an output pointer is null
H1NullOut ==
    /\ h1_pc = "call" /\ h1_null.out
    /\ h1_pc' = "done" /\ h1_ret' = TOPO_ERROR_INVALID_ARGUMENT
    /\ UNCHANGED <<h1_in_edges, h1_null, h1_in_tris, h1_edges, h1_tris, h1_red,
                   h1_out_count, h1_again, ufVars, h0Vars, gpuVars, envVars,
                   knnVars, rqVars, denVars, subVars>>

\* line 70: t == 0 || m == 0
h1_empty(m, t) == t = 0 \/ m = 0

\* lines 68-70: *out_count = 0 and the return for t == 0 or m == 0
H1Empty ==
    /\ h1_pc = "call" /\ ~h1_null.out
    /\ h1_empty(Len(h1_in_edges), Len(h1_in_tris))
    /\ h1_out_count' = 0
    /\ h1_pc' = "done" /\ h1_ret' = TOPO_SUCCESS
    /\ UNCHANGED <<h1_in_edges, h1_null, h1_in_tris, h1_edges, h1_tris, h1_red,
                   h1_again, ufVars, h0Vars, gpuVars, envVars, knnVars, rqVars, denVars, subVars>>

\* lines 68-72: *out_count = 0; neither count is 0 and an edge or triangle
\* pointer is null
H1NullArrays ==
    /\ h1_pc = "call" /\ ~h1_null.out
    /\ ~h1_empty(Len(h1_in_edges), Len(h1_in_tris))
    /\ h1_null.edges \/ h1_null.tris
    /\ h1_out_count' = 0
    /\ h1_pc' = "done" /\ h1_ret' = TOPO_ERROR_INVALID_ARGUMENT
    /\ UNCHANGED <<h1_in_edges, h1_null, h1_in_tris, h1_edges, h1_tris, h1_red,
                   h1_again, ufVars, h0Vars, gpuVars, envVars, knnVars, rqVars, denVars, subVars>>

\* lines 68-134: *out_count = 0, both qsorts, the boundary columns and the
\* empty pivot table
H1Setup ==
    /\ h1_pc = "call" /\ ~h1_null.out /\ ~h1_null.edges /\ ~h1_null.tris
    /\ ~h1_empty(Len(h1_in_edges), Len(h1_in_tris))
    /\ \E es \in qsort_edge_info(h1_in_edges), ts \in qsort_tris(h1_in_tris) :
          /\ h1_edges' = es
          /\ h1_tris' = ts
          /\ h1_red' = reduction_start(
                 [c \in 0..(Len(ts) - 1) |-> boundary_column(es, ts[c + 1])],
                 Len(es), Len(ts))
    /\ h1_out_count' = 0
    /\ h1_pc' = "reduce"
    /\ UNCHANGED <<h1_in_edges, h1_null, h1_in_tris, h1_ret, h1_again,
                   ufVars, h0Vars, gpuVars, envVars, knnVars, rqVars, denVars, subVars>>

H1InLoop == h1_pc = "reduce" /\ h1_red.col < Len(h1_tris)

H1Step ==
    /\ h1_red' = h1_step(h1_red, h1_edges, h1_tris)
    /\ UNCHANGED <<h1_pc, h1_in_edges, h1_null, h1_in_tris, h1_edges, h1_tris,
                   h1_out_count, h1_ret, h1_again, ufVars, h0Vars, gpuVars, envVars,
                   knnVars, rqVars, denVars, subVars>>

\* line 136 false: the column is empty, the for loop goes to the next one
H1EmptyColumn ==
    /\ H1InLoop
    /\ Len(h1_red.boundary[h1_red.col]) = 0
    /\ H1Step

\* lines 138-145: the pivot has no owner
H1Pair ==
    /\ H1InLoop
    /\ Len(h1_red.boundary[h1_red.col]) > 0
    /\ pivot_unowned(h1_red.pivot_col, pivot_row(h1_red.boundary[h1_red.col]))
    /\ H1Step

\* lines 146-169: the pivot is owned by an earlier column
H1Xor ==
    /\ H1InLoop
    /\ Len(h1_red.boundary[h1_red.col]) > 0
    /\ ~pivot_unowned(h1_red.pivot_col, pivot_row(h1_red.boundary[h1_red.col]))
    /\ H1Step

\* lines 173-183
H1Return ==
    /\ h1_pc = "reduce" /\ h1_red.col >= Len(h1_tris)
    /\ h1_out_count' = h1_red.count
    /\ h1_pc' = "done" /\ h1_ret' = TOPO_SUCCESS
    /\ UNCHANGED <<h1_in_edges, h1_null, h1_in_tris, h1_edges, h1_tris, h1_red, h1_again,
                   ufVars, h0Vars, gpuVars, envVars, knnVars, rqVars, denVars, subVars>>

NextH1 ==
    H1NullOut \/ H1Empty \/ H1NullArrays \/ H1Setup \/ H1EmptyColumn \/ H1Pair
        \/ H1Xor \/ H1Return

SpecH1 == InitH1 /\ [][NextH1]_vars

\* the reduction loop (lines 129-171) applied to the columns the first run
\* left
H1Again ==
    /\ h1_pc = "done" /\ Len(h1_tris) > 0
    /\ h1_again' = h1_reduce(
           reduction_start(h1_red.boundary, Len(h1_edges), Len(h1_tris)),
           h1_edges, h1_tris)
    /\ h1_pc' = "again"
    /\ UNCHANGED <<h1_in_edges, h1_null, h1_in_tris, h1_edges, h1_tris, h1_red,
                   h1_out_count, h1_ret, ufVars, h0Vars, gpuVars, envVars, knnVars,
                   rqVars, denVars, subVars>>

SpecH1Again == InitH1 /\ [][NextH1 \/ H1Again]_vars

\* the caller requests cancellation once the complex is built and before
\* topo_gpu_persistence_h1 has sorted it. The function takes no token
\* (parameters of lines 61-65): nothing it does reads cancel_token.
CancelRequested ==
    /\ h1_pc = "call" /\ ~cancel_token
    /\ cancel_token' = TRUE
    /\ UNCHANGED <<ufVars, h0Vars, gpuVars, h1Vars, knnVars, rqVars, denVars, subVars>>

SpecH1Cancel == InitH1 /\ [][NextH1 \/ CancelRequested]_vars

\* ---------------------------------------------------- claims about H1
H1Reduced == h1_pc = "done" /\ h1_ret = TOPO_SUCCESS /\ Len(h1_tris) > 0

\* C3: every pair emitted by topo_gpu_persistence_h1 satisfies
\* death > birth; a pair with death = birth is not written.
C3_PairsDeathAfterBirth ==
    \A i \in 1..Len(h1_red.births) : h1_red.births[i] < h1_red.deaths[i]

\* The textbook reduction, on sets of rows. Column c of the boundary matrix
\* is the set of rows whose edge is a face of triangle c.
IsFace(e, tri) ==
    /\ e.src # e.dst
    /\ {e.src, e.dst} \subseteq {tri.v0, tri.v1, tri.v2}

StdBoundary(es, ts) ==
    [c \in 0..(Len(ts) - 1) |->
        {r \in 0..(Len(es) - 1) : IsFace(es[r + 1], ts[c + 1])}]

SymDiff(A, B) == (A \ B) \cup (B \ A)

\* add owners' columns to the set cur until it is empty or its largest row
\* has no owner
RECURSIVE StdReduceColumn(_, _, _)
StdReduceColumn(cur, R, owner) ==
    IF cur = {} \/ owner[Max(cur)] < 0 THEN cur
    ELSE StdReduceColumn(SymDiff(cur, R[owner[Max(cur)]]), R, owner)

\* columns c, c+1, ... reduced left to right; pairs lists <<row, column>>
RECURSIVE StdReduction(_, _, _, _)
StdReduction(c, R, owner, pairs) ==
    IF c \notin DOMAIN R THEN [R |-> R, owner |-> owner, pairs |-> pairs]
    ELSE LET low == StdReduceColumn(R[c], R, owner)
             R1 == [R EXCEPT ![c] = low]
         IN  IF low = {} THEN StdReduction(c + 1, R1, owner, pairs)
             ELSE StdReduction(c + 1, R1, [owner EXCEPT ![Max(low)] = c],
                               Append(pairs, <<Max(low), c>>))

Rows(column) == {column[i] : i \in 1..Len(column)}

\* C8: the pairs written are exactly those of the standard left-to-right
\* Z/2 column reduction of the triangle-edge boundary matrix in sorted
\* order: the k-th pair is (filt of the edge whose sorted index is the
\* largest row of the k-th non-zero fully reduced column, filt of that
\* column's triangle), and the reduced columns and the pivot table are the
\* standard ones.
C8_PairsOfStandardReduction ==
    H1Reduced =>
        LET std == StdReduction(0, StdBoundary(h1_edges, h1_tris),
                                [r \in 0..(Len(h1_edges) - 1) |-> -1], <<>>)
        IN  /\ h1_out_count = Len(std.pairs)
            /\ h1_red.births =
                   [k \in 1..Len(std.pairs) |-> h1_edges[std.pairs[k][1] + 1].filt]
            /\ h1_red.deaths =
                   [k \in 1..Len(std.pairs) |-> h1_tris[std.pairs[k][2] + 1].filt]
            /\ \A k \in 1..Len(std.pairs) :
                   pivot_row(h1_red.boundary[std.pairs[k][2]]) = std.pairs[k][1]
            /\ \A c \in DOMAIN h1_red.boundary :
                   /\ Rows(h1_red.boundary[c]) = std.R[c]
                   /\ Len(h1_red.boundary[c]) = Cardinality(std.R[c])
            /\ h1_red.pivot_col = std.owner

\* a reduction that made symmetric differences, left a column empty and
\* wrote at least two pairs, one of them with birth < death
C8_Witness ==
    /\ H1Reduced /\ h1_red.xors > 0 /\ h1_out_count >= 2
    /\ \E c \in DOMAIN h1_red.boundary : h1_red.boundary[c] = <<>>
    /\ \E k \in 1..Len(h1_red.births) : h1_red.births[k] < h1_red.deaths[k]

\* C9: running the reduction again over the reduced columns performs no
\* symmetric difference, leaves every column unchanged and yields the same
\* pivot ownership and the same pairs.
C9_SecondReductionChangesNothing ==
    h1_pc = "again" =>
        /\ h1_again.xors = 0
        /\ h1_again.boundary = h1_red.boundary
        /\ h1_again.pivot_col = h1_red.pivot_col
        /\ h1_again.births = h1_red.births
        /\ h1_again.deaths = h1_red.deaths
        /\ h1_again.count = h1_red.count

\* the second run after a first run that made symmetric differences, wrote
\* pairs and reduced a column to zero
C9_Witness ==
    /\ h1_pc = "again" /\ h1_red.xors > 1 /\ h1_red.count >= 2
    /\ \E c \in DOMAIN h1_red.boundary : h1_red.boundary[c] = <<>>
    /\ h1_again.count = h1_red.count

\* the error code the specification names Cancelled; TopoError has no such
\* member
Cancelled == "cancelled"

\* C12: a cancellation token flipped after the complex is built is observed
\* by topo_gpu_persistence_h1 between the sort and the reduction loop: the
\* call returns Cancelled, having written no pair and keeping no boundary
\* column.
C12_CancelledBeforeReduction ==
    (h1_pc = "done" /\ cancel_token /\ Len(h1_in_tris) > 0 /\ Len(h1_in_edges) > 0) =>
        /\ h1_ret = Cancelled
        /\ h1_red.count = 0
        /\ h1_red.xors = 0

\* ------------------------------------------------------- double arithmetic
\* Doubles are modelled on the integer grid -DBL_MAX..DBL_MAX with INF above
\* it: a result beyond DBL_MAX overflows to INF, and sqrt rounds to the grid.
DBL_MAX == 16
INF == DBL_MAX + 1

fadd(a, b) == IF a = INF \/ b = INF \/ a + b > DBL_MAX THEN INF ELSE a + b
fmul(a, b) == IF a = INF \/ b = INF \/ a * b > DBL_MAX THEN INF ELSE a * b
fsqrt(x) == IF x = INF THEN INF ELSE CHOOSE r \in 0..x : r * r <= x /\ x < (r + 1) * (r + 1)

\* -------------------------------------------------------------- knn_kernel
\* the coordinates a point may have; the last one is so far from the others
\* that the square of the difference overflows
Coordinates == {0, 1, 2, 9}
\* (n, d) of the point matrices
KnnShapes == {<<2, 1>>, <<3, 1>>, <<4, 1>>, <<2, 2>>}
\* blockDim.x of the launch (256 at line 252, scaled down with n)
ThreadCounts == {1, 2, 3}

\* lines 177-181: the sum over the dimensions of (query[dim] - p[dim])^2
RECURSIVE dist_sq_loop(_, _, _, _, _)
dist_sq_loop(query, p, d_, dim, dist_sq) ==
    IF dim >= d_ THEN dist_sq
    ELSE dist_sq_loop(query, p, d_, dim + 1,
             fadd(dist_sq, fmul(query[dim + 1] - p[dim + 1], query[dim + 1] - p[dim + 1])))

\* the distance computed from the data point alone
point_dist_from_origin(points, d_, query_id, i) ==
    fsqrt(dist_sq_loop([dim \in 1..d_ |-> 0], points[i], d_, 0, 0))

\* lines 170-182: dist from points[query_id] to points[i]
point_dist(points, d_, query_id, i) ==
    fsqrt(dist_sq_loop(points[query_id], points[i], d_, 0, 0))

\* the while loop of lines 140-144 and the stores of lines 145-146; pos is
\* the 0-based position, the arrays are 1-based sequences
RECURSIVE insert_shift(_, _, _, _, _)
insert_shift(dists, idxs, pos, dist, idx) ==
    IF pos > 0 /\ dists[pos] > dist
    THEN insert_shift([dists EXCEPT ![pos + 1] = dists[pos]],
                      [idxs EXCEPT ![pos + 1] = idxs[pos]], pos - 1, dist, idx)
    ELSE [dist |-> [dists EXCEPT ![pos + 1] = dist],
          idx |-> [idxs EXCEPT ![pos + 1] = idx]]

\* insert_if_closer (lines 135-147)
insert_if_closer(dists, idxs, k_, dist, idx) ==
    IF dist >= dists[k_]
    THEN [dist |-> dists, idx |-> idxs]
    ELSE insert_shift(dists, idxs, k_ - 1, dist, idx)

\* line 163
local_k(k_) == IF k_ < 256 THEN k_ ELSE 256

\* lines 165-168 and 203-206: k entries of (DBL_MAX, -1)
empty_topk(k_) == [dist |-> [j \in 1..k_ |-> DBL_MAX], idx |-> [j \in 1..k_ |-> -1]]

\* one iteration of the loop of lines 173-184 by a thread whose loop index
\* is th.i
scan_insert(th, in, top) ==
    [at |-> th.at, i |-> th.i + in.nthreads, dist |-> top.dist, idx |-> top.idx]

scan_step(th, in) ==
    IF th.i = in.query_id
    THEN [th EXCEPT !.i = th.i + in.nthreads]
    ELSE scan_insert(th, in,
             insert_if_closer(th.dist, th.idx, local_k(in.k),
                              point_dist(in.points, in.d, in.query_id, th.i), th.i))

\* the whole loop of lines 173-184
RECURSIVE thread_scan(_, _)
thread_scan(th, in) == IF th.i >= in.n THEN th ELSE thread_scan(scan_step(th, in), in)

\* the thread's state at line 172
thread_start(in, tid) ==
    [at |-> "loop", i |-> tid, dist |-> empty_topk(local_k(in.k)).dist,
     idx |-> empty_topk(local_k(in.k)).idx]

\* lines 210-214: one entry of shared memory offered to the merged list
merge_entry(m, k_, d_val, i_val) ==
    IF i_val >= 0 THEN insert_if_closer(m.dist, m.idx, k_, d_val, i_val) ELSE m

\* lines 208-216: thread 0 goes through the slices of threads t.. from
\* entry i on
RECURSIVE merge_loop(_, _, _, _, _, _)
merge_loop(m, smem, nthreads, k_, t, i) ==
    IF t >= nthreads THEN m
    ELSE IF i >= k_ THEN merge_loop(m, smem, nthreads, k_, t + 1, 0)
    ELSE merge_loop(merge_entry(m, k_, smem[t].dist[i + 1], smem[t].idx[i + 1]),
                    smem, nthreads, k_, t, i + 1)

\* lines 200-224: the row thread 0 writes
merged_row(smem, nthreads, k_) ==
    merge_loop(empty_topk(local_k(k_)), smem, nthreads, local_k(k_), 0, 0)

\* what a thread leaves in its slice of shared memory (lines 193-196)
smem_slice(th) == [dist |-> th.dist, idx |-> th.idx]

\* the row of query_id computed by one block of in.nthreads threads
knn_row(in) ==
    merged_row([t \in 0..(in.nthreads - 1) |-> smem_slice(thread_scan(thread_start(in, t), in))],
               in.nthreads, in.k)

KnnInputs ==
    UNION {[points : {[i \in 0..(sh[1] - 1) |-> p[i]] :
                         p \in [0..(sh[1] - 1) -> [1..sh[2] -> Coordinates]]},
            n : {sh[1]}, d : {sh[2]}, k : 1..(sh[1] - 1),
            nthreads : ThreadCounts, query_id : 0..(sh[1] - 1)] : sh \in KnnShapes}

\* one block of the launch of line 256 for a valid call (1 <= k < n)
InitKnn ==
    /\ knn_in \in KnnInputs
    /\ knn_pc = "scan"
    /\ knn_thr = [t \in 0..(knn_in.nthreads - 1) |-> thread_start(knn_in, t)]
    /\ knn_smem = [t \in 0..(knn_in.nthreads - 1) |-> <<>>]
    /\ knn_out = <<>>
    /\ UFIdle /\ H0Idle /\ GpuIdle /\ H1Idle /\ RqIdle
    /\ cancel_token = FALSE
    /\ DenIdle /\ SubIdle

\* a thread runs one iteration of its loop
KnnScan(t) ==
    /\ knn_pc = "scan" /\ knn_thr[t].at = "loop" /\ knn_thr[t].i < knn_in.n
    /\ knn_thr' = [knn_thr EXCEPT ![t] = scan_step(knn_thr[t], knn_in)]
    /\ UNCHANGED <<knn_pc, knn_in, knn_smem, knn_out, ufVars, h0Vars, gpuVars,
                   h1Vars, envVars, rqVars, denVars, subVars>>

\* a thread leaves its loop, writes its slice and waits at __syncthreads
KnnShare(t) ==
    /\ knn_pc = "scan" /\ knn_thr[t].at = "loop" /\ knn_thr[t].i >= knn_in.n
    /\ knn_smem' = [knn_smem EXCEPT ![t] = smem_slice(knn_thr[t])]
    /\ knn_thr' = [knn_thr EXCEPT ![t].at = "barrier"]
    /\ UNCHANGED <<knn_pc, knn_in, knn_out, ufVars, h0Vars, gpuVars, h1Vars,
                   envVars, rqVars, denVars, subVars>>

\* every thread is at the barrier: thread 0 merges and writes the row
KnnMerge ==
    /\ knn_pc = "scan"
    /\ \A t \in 0..(knn_in.nthreads - 1) : knn_thr[t].at = "barrier"
    /\ knn_out' = merged_row(knn_smem, knn_in.nthreads, knn_in.k)
    /\ knn_pc' = "done"
    /\ UNCHANGED <<knn_in, knn_thr, knn_smem, ufVars, h0Vars, gpuVars, h1Vars,
                   envVars, rqVars, denVars, subVars>>

NextKnn ==
    \/ \E t \in 0..(knn_in.nthreads - 1) : KnnScan(t)
    \/ \E t \in 0..(knn_in.nthreads - 1) : KnnShare(t)
    \/ KnnMerge

SpecKnn == InitKnn /\ [][NextKnn]_vars

\* ------------------------------------------------- claims about knn_kernel
KnnDone == knn_pc = "done"
Others == (0..(knn_in.n - 1)) \ {knn_in.query_id}
\* the distance from the query to point j, as the kernel computes it
QDist(j) == point_dist(knn_in.points, knn_in.d, knn_in.query_id, j)
\* the positions of the output row
Row == 1..knn_in.k

\* C15: in the output row of a valid call the k distances are
\* non-decreasing, and every index is in [0, n), differs from the query and
\* is a real point, never the (DBL_MAX, -1) placeholder.
C15_RowSortedAndReal ==
    KnnDone =>
        /\ \A r, q \in Row : r < q => knn_out.dist[r] <= knn_out.dist[q]
        /\ \A r \in Row :
              /\ knn_out.idx[r] \in 0..(knn_in.n - 1)
              /\ knn_out.idx[r] # knn_in.query_id
              /\ knn_out.idx[r] # -1 /\ knn_out.dist[r] # DBL_MAX

\* C16: within the output row neighbours at equal distance appear in
\* ascending index order, and of the points tied at the k-th distance the
\* ones with the smallest indices are retained.
C16_TiesByAscendingIndex ==
    KnnDone =>
        /\ \A r, q \in Row :
              (r < q /\ knn_out.dist[r] = knn_out.dist[q]) => knn_out.idx[r] < knn_out.idx[q]
        /\ \A j \in Others :
              (QDist(j) = knn_out.dist[knn_in.k] /\ \A r \in Row : knn_out.idx[r] # j)
                  => \A r \in Row : knn_out.dist[r] = QDist(j) => knn_out.idx[r] < j

\* how many of the k smallest distances from the query to the other points
\* have the value v
KSmallestCount(v) ==
    LET less == Cardinality({j \in Others : QDist(j) < v})
        same == Cardinality({j \in Others : QDist(j) = v})
    IN  IF less >= knn_in.k THEN 0 ELSE Min({same, knn_in.k - less})

\* C17: the k distances of the output row are the k smallest distances from
\* the query to the other n-1 points (as a multiset), each paired with the
\* index of a point at that distance, and no index occurs twice.
C17_RowIsKSmallest ==
    KnnDone =>
        /\ \A v \in 0..INF :
              Cardinality({r \in Row : knn_out.dist[r] = v}) = KSmallestCount(v)
        /\ \A r \in Row :
              knn_out.idx[r] \in Others /\ QDist(knn_out.idx[r]) = knn_out.dist[r]
        /\ \A r, q \in Row : knn_out.idx[r] = knn_out.idx[q] => r = q

\* C18: whatever the number of threads and their interleaving, the row is
\* the one a single thread scanning the points in index order produces.
C18_SameAsSingleThread ==
    KnnDone => knn_out = knn_row([knn_in EXCEPT !.nthreads = 1])

\* row j of the output of the same launch
RowOf(j) == knn_row([knn_in EXCEPT !.query_id = j])

\* C19 as claimed: if row i contains j at distance delta, then row j
\* contains i at distance delta.
C19_NeighbourRelationSymmetric ==
    KnnDone =>
        \A r \in Row :
            knn_out.idx[r] \in Others =>
                \E q \in Row :
                    /\ RowOf(knn_out.idx[r]).idx[q] = knn_in.query_id
                    /\ RowOf(knn_out.idx[r]).dist[q] = knn_out.dist[r]

\* C19 amended: if row i contains j at distance delta and row j contains i,
\* then row j holds i at the same distance delta.
C19_MutualNeighboursSameDistance ==
    KnnDone =>
        \A r, q \in Row :
            (knn_out.idx[r] \in Others /\ RowOf(knn_out.idx[r]).idx[q] = knn_in.query_id)
                => RowOf(knn_out.idx[r]).dist[q] = knn_out.dist[r]

\* two distinct points are in each other's rows at a distance that is not 0
C19_Witness ==
    /\ KnnDone
    /\ \E r, q \in Row :
          /\ knn_out.idx[r] \in Others
          /\ RowOf(knn_out.idx[r]).idx[q] = knn_in.query_id
          /\ knn_out.dist[r] > 0 /\ knn_out.dist[r] < DBL_MAX
          /\ knn_in.points[knn_in.query_id] # [dim \in 1..knn_in.d |-> 0]
          /\ knn_in.points[knn_out.idx[r]] # [dim \in 1..knn_in.d |-> 0]

\* ------------------------------------------------------ radius_query_kernel
\* (n, d) of the point matrices of the radius query
RqShapes == {<<1, 1>>, <<2, 1>>, <<3, 1>>, <<2, 2>>}
\* the radii passed (radius >= 0 is checked at line 59)
Radii == {0, 1, 2, 9}

\* lines 42-47: dist_sq from points[i] to the query, diff = p[dim] - query[dim]
rq_dist_sq(in, i) == dist_sq_loop(in.points[i], in.query, in.d, 0, 0)

\* line 83
radius_sq(in) == fmul(in.radius, in.radius)

\* line 49 with a strict comparison
in_radius_strict(dist_sq, r_sq) == dist_sq < r_sq

\* line 49: dist_sq <= radius_sq
in_radius(dist_sq, r_sq) == dist_sq <= r_sq

\* atomicAdd(address, val): the old value is returned, old + val is stored,
\* in one indivisible step
atomicAdd(old, val) == [returned |-> old, stored |-> old + val]

\* the threads of the launch of line 87: one per point and one more, whose
\* index is not below n (blocks * 256 threads are launched)
RqThreads == 0..rq_in.n

RqInputs ==
    UNION {[points : [0..(sh[1] - 1) -> [1..sh[2] -> Coordinates]],
            query : [1..sh[2] -> Coordinates],
            n : {sh[1]}, d : {sh[2]}, radius : Radii] : sh \in RqShapes}

\* the kernel launch of lines 87-88 after cudaMemset(d_out_count, 0)
InitRq ==
    /\ rq_in \in RqInputs
    /\ rq_pc = "kernel"
    /\ rq_thr = [i \in 0..rq_in.n |-> [at |-> "start", pos |-> -1]]
    /\ rq_count = 0
    /\ rq_indices = [slot \in 0..(rq_in.n - 1) |-> -1]
    /\ rq_writes = [slot \in 0..(rq_in.n - 1) |-> 0]
    /\ rq_out = <<>>
    /\ UFIdle /\ H0Idle /\ GpuIdle /\ H1Idle /\ KnnIdle
    /\ cancel_token = FALSE
    /\ DenIdle /\ SubIdle

\* line 40: a thread whose index is not below n returns
RqOutOfRange(i) ==
    /\ rq_pc = "kernel" /\ rq_thr[i].at = "start" /\ i >= rq_in.n
    /\ rq_thr' = [rq_thr EXCEPT ![i].at = "exit"]
    /\ UNCHANGED <<rq_pc, rq_in, rq_count, rq_indices, rq_writes, rq_out,
                   ufVars, h0Vars, gpuVars, h1Vars, envVars, knnVars,
                   denVars, subVars>>

\* lines 42-50: the distance test and, inside the radius, the atomicAdd
RqTest(i) ==
    /\ rq_pc = "kernel" /\ rq_thr[i].at = "start" /\ i < rq_in.n
    /\ IF in_radius(rq_dist_sq(rq_in, i), radius_sq(rq_in))
       THEN /\ rq_thr' = [rq_thr EXCEPT ![i] = [at |-> "write",
                                                  pos |-> atomicAdd(rq_count, 1).returned]]
            /\ rq_count' = atomicAdd(rq_count, 1).stored
       ELSE /\ rq_thr' = [rq_thr EXCEPT ![i].at = "exit"]
            /\ rq_count' = rq_count
    /\ UNCHANGED <<rq_pc, rq_in, rq_indices, rq_writes, rq_out,
                   ufVars, h0Vars, gpuVars, h1Vars, envVars, knnVars,
                   denVars, subVars>>

\* line 51: out_indices[pos] = i
RqWrite(i) ==
    /\ rq_pc = "kernel" /\ rq_thr[i].at = "write"
    /\ rq_indices' = [rq_indices EXCEPT ![rq_thr[i].pos] = i]
    /\ rq_writes' = [rq_writes EXCEPT ![rq_thr[i].pos] = @ + 1]
    /\ rq_thr' = [rq_thr EXCEPT ![i].at = "exit"]
    /\ UNCHANGED <<rq_pc, rq_in, rq_count, rq_out,
                   ufVars, h0Vars, gpuVars, h1Vars, envVars, knnVars,
                   denVars, subVars>>

\* lines 99-102: the kernel has finished; h_count and the first h_count
\* entries of d_out_indices are copied out
RqCopy ==
    /\ rq_pc = "kernel" /\ \A i \in RqThreads : rq_thr[i].at = "exit"
    /\ rq_out' = [indices |-> [slot \in 0..(rq_count - 1) |-> rq_indices[slot]],
                  count |-> rq_count]
    /\ rq_pc' = "done"
    /\ UNCHANGED <<rq_in, rq_thr, rq_count, rq_indices, rq_writes,
                   ufVars, h0Vars, gpuVars, h1Vars, envVars, knnVars,
                   denVars, subVars>>

NextRq ==
    \/ \E i \in RqThreads : RqOutOfRange(i)
    \/ \E i \in RqThreads : RqTest(i)
    \/ \E i \in RqThreads : RqWrite(i)
    \/ RqCopy

SpecRq == InitRq /\ [][NextRq]_vars

\* the points within the radius: dist(P[i], q)^2 <= radius^2
WithinRadius ==
    {i \in 0..(rq_in.n - 1) : rq_dist_sq(rq_in, i) <= fmul(rq_in.radius, rq_in.radius)}

\* C20: under every interleaving of the kernel's threads no output slot is
\* written twice and no two threads hold the same slot; the indices returned
\* in out_indices[0..out_count) are pairwise distinct and are exactly the
\* points within the radius (a point exactly radius away included), and
\* out_count is their number, at most n.
C20_RadiusQueryExactAndRaceFree ==
    /\ rq_pc \in {"kernel", "done"} =>
          /\ \A slot \in 0..(rq_in.n - 1) : rq_writes[slot] <= 1
          /\ \A i, j \in RqThreads :
                (i # j /\ rq_thr[i].pos >= 0) => rq_thr[i].pos # rq_thr[j].pos
          /\ rq_count <= rq_in.n
    /\ rq_pc = "done" =>
          /\ \A a, b \in 0..(rq_out.count - 1) :
                rq_out.indices[a] = rq_out.indices[b] => a = b
          /\ {rq_out.indices[a] : a \in 0..(rq_out.count - 1)} = WithinRadius
          /\ rq_out.count = Cardinality(WithinRadius)
          /\ rq_out.count <= rq_in.n

\* two points were reported, one of them exactly radius away from the query
C20_Witness ==
    /\ rq_pc = "done" /\ rq_out.count >= 2 /\ rq_out.count < rq_in.n
    /\ rq_in.radius > 0
    /\ \E a \in 0..(rq_out.count - 1) :
          rq_dist_sq(rq_in, rq_out.indices[a]) = fmul(rq_in.radius, rq_in.radius)

\* ---------------------------------------------------------------------------
\* Entry checks of both persistence entry points
\* ---------------------------------------------------------------------------

\* one call of topo_gpu_persistence_h0 or one of topo_gpu_persistence_h1
InitEntry == InitH0 \/ InitH1

NextEntry == NextH0 \/ NextH1

SpecEntry == InitEntry /\ [][NextEntry]_vars

\* the arguments other than the edge and triangle arrays are usable
H0OtherArgsValid == ~h0_null.required /\ n > 0

H1OtherArgsValid == ~h1_null.out

H0EmptyResult ==
    /\ h0_ret = TOPO_SUCCESS /\ h0_out_count = 0
    /\ h0_out_births = <<>> /\ h0_out_deaths = <<>>

H1EmptyResult ==
    /\ h1_ret = TOPO_SUCCESS /\ h1_out_count = 0
    /\ h1_red = NoReduction

\* C21: a call of the H0 entry point with m = 0, and a call of the H1 entry
\* point with m = 0 or t = 0, returns TOPO_SUCCESS with *out_count = 0 and
\* nothing written to the output arrays, whether or not the edge and triangle
\* array pointers are null (the count and output pointers being valid)
C21_EmptyComplexSucceeds ==
    /\ (h0_pc = "done" /\ H0OtherArgsValid /\ Len(h0_in) = 0) => H0EmptyResult
    /\ (h1_pc = "done" /\ H1OtherArgsValid
            /\ (Len(h1_in_edges) = 0 \/ Len(h1_in_tris) = 0)) => H1EmptyResult

\* an H0 call with no edge and null edge pointers has returned success
C21_Witness ==
    /\ h0_pc = "done" /\ Len(h0_in) = 0 /\ h0_null.edges /\ n = 3
    /\ H0EmptyResult

\* ---------------------------------------------------------------------------
\* density_filtration_kernel (density.cu)
\* ---------------------------------------------------------------------------

\* The doubles of this kernel are fixed-point numbers: FP_ONE units make 1.0.
FP_ONE == 100
\* the threshold 1e-10 of line 25, placed at 2 units so that the grid has
\* distances on both sides of it
EPS == 2
\* +infinity
FP_INF == FP_ONE * FP_ONE * FP_ONE

\* a / b in IEEE arithmetic, rounded to the nearest grid value, for a >= 0
\* and b >= 0: x / 0 is +infinity, x / infinity is 0
fdiv(a, b) ==
    IF b = 0 THEN FP_INF
    ELSE IF b = FP_INF THEN 0
    ELSE (2 * a * FP_ONE + b) \div (2 * b)

\* line 25 left out
no_clamp(d) == d

\* line 25: if (d < 1e-10) d = 1e-10
clamp(d) == IF d < EPS THEN EPS ELSE d

\* lines 24-26: the value thread i stores for d = kth_distances[i]
density_filtration(d) == -fdiv(FP_ONE, clamp(d))

\* the kth distances a launch may be given: negative, zero, below, at and
\* above the threshold, infinite
KthDistances == {-1, 0, 1, 2, 3, 10, 20, 1000, FP_INF}
\* the values of n of the launches enumerated
DensityCounts == {1, 2, 3}

\* one launch of the kernel over n points: threads 0..n, thread n standing
\* for the threads of the last block with i >= n
InitDensity ==
    /\ den_in \in UNION {[1..len -> KthDistances] : len \in DensityCounts}
    /\ den_pc = "kernel"
    /\ den_thr = [i \in 0..Len(den_in) |-> "start"]
    /\ den_d_out = <<>> /\ den_out = <<>>
    /\ UFIdle /\ H0Idle /\ GpuIdle /\ H1Idle /\ KnnIdle /\ RqIdle /\ SubIdle
    /\ cancel_token = FALSE

\* line 22: if (i >= n) return
DenOutOfRange(i) ==
    /\ den_pc = "kernel" /\ den_thr[i] = "start" /\ i >= Len(den_in)
    /\ den_thr' = [den_thr EXCEPT ![i] = "exit"]
    /\ UNCHANGED <<den_pc, den_in, den_d_out, den_out, ufVars, h0Vars, gpuVars, h1Vars,
                   envVars, knnVars, rqVars, subVars>>

\* lines 24-26 in thread i
DenThread(i) ==
    /\ den_pc = "kernel" /\ den_thr[i] = "start" /\ i < Len(den_in)
    /\ den_d_out' = (i :> density_filtration(den_in[i + 1])) @@ den_d_out
    /\ den_thr' = [den_thr EXCEPT ![i] = "exit"]
    /\ UNCHANGED <<den_pc, den_in, den_out, ufVars, h0Vars, gpuVars, h1Vars, envVars,
                   knnVars, rqVars, subVars>>

\* line 57: cudaMemcpy(out_filtration, d_out, ...) once the kernel is over
DenCopy ==
    /\ den_pc = "kernel" /\ \A i \in DOMAIN den_thr : den_thr[i] = "exit"
    /\ den_out' = den_d_out
    /\ den_pc' = "done"
    /\ UNCHANGED <<den_in, den_thr, den_d_out, ufVars, h0Vars, gpuVars, h1Vars, envVars,
                   knnVars, rqVars, subVars>>

NextDensity ==
    \/ \E i \in DOMAIN den_thr : DenOutOfRange(i)
    \/ \E i \in DOMAIN den_thr : DenThread(i)
    \/ DenCopy

SpecDensity == InitDensity /\ [][NextDensity]_vars

\* C23: the filtration values written are monotone in the kth distance and
\* never positive (a <= b gives F(a) <= F(b) <= 0), every distance in
\* [0, eps) gets the value of eps, and no value is the infinity a division
\* by zero would produce
C23_FiltrationMonotoneAndClamped ==
    /\ \A i, j \in DOMAIN den_d_out :
           den_in[i + 1] <= den_in[j + 1]
               => den_d_out[i] <= den_d_out[j] /\ den_d_out[j] <= 0
    /\ \A i \in DOMAIN den_d_out :
           /\ 0 <= den_in[i + 1] /\ den_in[i + 1] < EPS
                  => den_d_out[i] = -((FP_ONE * FP_ONE) \div EPS)
           /\ den_d_out[i] # -FP_INF

\* a launch over coincident points (distance 0), a distance below the
\* threshold and one above it has been copied back
C23_Witness ==
    /\ den_pc = "done" /\ den_in = <<0, 1, 3>>
    /\ den_out[0] = den_out[1] /\ den_out[1] < den_out[2] /\ den_out[2] < 0

\* ---------------------------------------------------------------------------
\* The two-cluster run: kth distances, density filtration, upper-star edges,
\* topo_gpu_persistence_h0
\* ---------------------------------------------------------------------------

\* the six points (0,0), (0,0.1), (0,0.2), (10,0), (10,0.1), (10,0.2) in
\* fixed-point units, point i at index i + 1
TwoClusterPoints ==
    << <<0, 0>>, <<0, FP_ONE \div 10>>, <<0, FP_ONE \div 5>>,
       <<10 * FP_ONE, 0>>, <<10 * FP_ONE, FP_ONE \div 10>>,
       <<10 * FP_ONE, FP_ONE \div 5>> >>

\* the squared distance between points i and j
pair_dist_sq(pts, i, j) ==
    (pts[i + 1][1] - pts[j + 1][1]) * (pts[i + 1][1] - pts[j + 1][1])
        + (pts[i + 1][2] - pts[j + 1][2]) * (pts[i + 1][2] - pts[j + 1][2])

\* the k nearest neighbours of point i: the other points by ascending
\* distance, equal distances by ascending index
neighbours(pts, i, k) ==
    CHOOSE S \in SUBSET ((0..(Len(pts) - 1)) \ {i}) :
        /\ Cardinality(S) = k
        /\ \A a \in S : \A b \in ((0..(Len(pts) - 1)) \ {i}) \ S :
               \/ pair_dist_sq(pts, i, a) < pair_dist_sq(pts, i, b)
               \/ pair_dist_sq(pts, i, a) = pair_dist_sq(pts, i, b) /\ a < b

\* the distance from point i to its kth neighbour
kth_distance(pts, i, k) ==
    LET far == Max({pair_dist_sq(pts, i, a) : a \in neighbours(pts, i, k)})
    IN  CHOOSE r \in 0..far : r * r <= far /\ far < (r + 1) * (r + 1)

\* the edge set of the complex: one undirected edge per neighbour pair, with
\* filt = max(F[src], F[dst]); F is indexed from 0
upper_star_edges(pts, k, F) ==
    {[src |-> Min({i, j}), dst |-> Max({i, j}), filt |-> Max({F[i], F[j]})] :
        <<i, j>> \in {p \in (0..(Len(pts) - 1)) \X (0..(Len(pts) - 1)) :
                         p[2] \in neighbours(pts, p[1], k)}}

\* the sequences that list every element of S once
Enumerations(S) ==
    {s \in [1..Cardinality(S) -> S] : \A a, b \in 1..Cardinality(S) : a # b => s[a] # s[b]}

\* the kth distances of the six points for k = 2 are handed to the kernel
InitTwoCluster ==
    /\ den_in = [i \in 1..Len(TwoClusterPoints) |->
                    kth_distance(TwoClusterPoints, i - 1, 2)]
    /\ den_pc = "kernel"
    /\ den_thr = [i \in 0..Len(den_in) |-> "start"]
    /\ den_d_out = <<>> /\ den_out = <<>>
    /\ UFIdle /\ H0Idle /\ GpuIdle /\ H1Idle /\ KnnIdle /\ RqIdle /\ SubIdle
    /\ cancel_token = FALSE

\* the complex is built from the filtration copied back and passed to
\* topo_gpu_persistence_h0, its edges in any order
TwoClusterCall ==
    /\ den_pc = "done" /\ h0_pc = "idle"
    /\ n' = Len(den_in)
    /\ vertex_filt' = den_out
    /\ uf' = uf_init(Len(den_in), den_out)
    /\ h0_in' \in Enumerations(upper_star_edges(TwoClusterPoints, 2, den_out))
    /\ h0_pc' = "call"
    /\ UNCHANGED <<h0_null, h0_device, h0_edges, h0_out_births, h0_out_deaths,
                   h0_out_count, h0_zero, h0_ret, gpuVars, h1Vars, envVars, knnVars,
                   rqVars, denVars, subVars>>

NextTwoCluster == NextDensity \/ TwoClusterCall \/ H0Gpu \/ H0Cpu

SpecTwoCluster == InitTwoCluster /\ [][NextTwoCluster]_vars

\* the run has returned from topo_gpu_persistence_h0
TwoClusterReturned == h0_pc = "done" /\ n = Len(TwoClusterPoints)

MaxInv == 2
Invocations == 1..MaxInv
\* the values randomUUID can return: each call returns one not returned before
JobIds == 1..MaxInv

\* the handler's locals before line 25
NoJob == [jobId |-> 0, streamKey |-> <<>>, nNeighbors |-> 0, sigmaThreshold |-> 0]
Running == [state |-> "running", statusCode |-> 0]
\* the promise of the handler rejects: a call threw
Rejected == [state |-> "rejected", statusCode |-> 0]
Returned(code) == [state |-> "returned", statusCode |-> code]

\* the request bodies sent: json is whether JSON.parse accepts the text, has
\* the keys present; a string is the sequence of its characters
RequestBodies ==
    [json : BOOLEAN,
     has : SUBSET {"streamKey", "nNeighbors", "sigmaThreshold"},
     streamKey : {<<>>, <<"g", "d", "1">>},
     nNeighbors : {0, 1},
     sigmaThreshold : {0, 3}]

\* SubmitJobRequestSchema.safeParse: success and, on success, the data with
\* the defaults filled in
SubmitJobRequestSchema(body) ==
    [success |->
        /\ "streamKey" \in body.has /\ Len(body.streamKey) >= 1
        /\ "nNeighbors" \in body.has => body.nNeighbors >= 1
        /\ "sigmaThreshold" \in body.has => body.sigmaThreshold > 0,
     data |->
        [streamKey |-> body.streamKey,
         nNeighbors |-> IF "nNeighbors" \in body.has THEN body.nNeighbors ELSE 32,
         sigmaThreshold |->
             IF "sigmaThreshold" \in body.has THEN body.sigmaThreshold ELSE 3]]

\* lines 30-39: the record put (createdAt, updatedAt and ttl left out)
job_record(job) ==
    [jobId |-> job.jobId, streamKey |-> job.streamKey, status |-> "PENDING",
     nNeighbors |-> job.nNeighbors, sigmaThreshold |-> job.sigmaThreshold]

\* line 51: the message body
job_message(job) ==
    [jobId |-> job.jobId, streamKey |-> job.streamKey,
     nNeighbors |-> job.nNeighbors, sigmaThreshold |-> job.sigmaThreshold]

\* the handler with the two awaits exchanged: the message is sent first
send_before_put(at) ==
    CASE at = "parsed" -> "send" [] at = "send" -> "put" [] at = "put" -> "return"

\* the order of the awaited calls of lines 41-58: PutItem, SendMessage, return
handler_order(at) ==
    CASE at = "parsed" -> "put" [] at = "put" -> "send" [] at = "send" -> "return"

InitSubmit ==
    /\ sub_pc = [r \in Invocations |-> "start"]
    /\ sub_job = [r \in Invocations |-> NoJob]
    /\ sub_resp = [r \in Invocations |-> Running]
    /\ jobs_table = {} /\ queue = {}
    /\ UFIdle /\ H0Idle /\ GpuIdle /\ H1Idle /\ KnnIdle /\ RqIdle /\ DenIdle
    /\ cancel_token = FALSE

\* line 15 or the JSON.parse of line 17 throws
SubThrow(r) ==
    /\ sub_pc[r] = "start"
    /\ sub_pc' = [sub_pc EXCEPT ![r] = "done"]
    /\ sub_resp' = [sub_resp EXCEPT ![r] = Rejected]
    /\ UNCHANGED <<sub_job, jobs_table, queue, ufVars, h0Vars, gpuVars, h1Vars, envVars,
                   knnVars, rqVars, denVars>>

\* lines 17-23: the body does not pass the schema
SubInvalid(r, body) ==
    /\ sub_pc[r] = "start" /\ body.json
    /\ ~SubmitJobRequestSchema(body).success
    /\ sub_pc' = [sub_pc EXCEPT ![r] = "done"]
    /\ sub_resp' = [sub_resp EXCEPT ![r] = Returned(400)]
    /\ UNCHANGED <<sub_job, jobs_table, queue, ufVars, h0Vars, gpuVars, h1Vars, envVars,
                   knnVars, rqVars, denVars>>

\* lines 17-39: the body passes; jobId = randomUUID()
SubAccept(r, body, id) ==
    /\ sub_pc[r] = "start" /\ body.json
    /\ SubmitJobRequestSchema(body).success
    /\ \A q \in Invocations : sub_job[q].jobId # id
    /\ sub_job' = [sub_job EXCEPT ![r] =
                      [jobId |-> id,
                       streamKey |-> SubmitJobRequestSchema(body).data.streamKey,
                       nNeighbors |-> SubmitJobRequestSchema(body).data.nNeighbors,
                       sigmaThreshold |->
                           SubmitJobRequestSchema(body).data.sigmaThreshold]]
    /\ sub_pc' = [sub_pc EXCEPT ![r] = handler_order("parsed")]
    /\ UNCHANGED <<sub_resp, jobs_table, queue, ufVars, h0Vars, gpuVars, h1Vars, envVars,
                   knnVars, rqVars, denVars>>

\* lines 41-46: await ddb.send(new PutItemCommand(...)) resolves
SubPut(r) ==
    /\ sub_pc[r] = "put"
    /\ jobs_table' = {rec \in jobs_table : rec.jobId # sub_job[r].jobId}
                        \cup {job_record(sub_job[r])}
    /\ sub_pc' = [sub_pc EXCEPT ![r] = handler_order("put")]
    /\ UNCHANGED <<sub_job, sub_resp, queue, ufVars, h0Vars, gpuVars, h1Vars, envVars,
                   knnVars, rqVars, denVars>>

\* lines 48-53: await sqs.send(new SendMessageCommand(...)) resolves
SubSend(r) ==
    /\ sub_pc[r] = "send"
    /\ queue' = queue \cup {job_message(sub_job[r])}
    /\ sub_pc' = [sub_pc EXCEPT ![r] = handler_order("send")]
    /\ UNCHANGED <<sub_job, sub_resp, jobs_table, ufVars, h0Vars, gpuVars, h1Vars,
                   envVars, knnVars, rqVars, denVars>>

\* either awaited call rejects: the handler has no catch
SubAwaitRejects(r) ==
    /\ sub_pc[r] \in {"put", "send"}
    /\ sub_pc' = [sub_pc EXCEPT ![r] = "done"]
    /\ sub_resp' = [sub_resp EXCEPT ![r] = Rejected]
    /\ UNCHANGED <<sub_job, jobs_table, queue, ufVars, h0Vars, gpuVars, h1Vars, envVars,
                   knnVars, rqVars, denVars>>

\* lines 55-58
SubReturn(r) ==
    /\ sub_pc[r] = "return"
    /\ sub_pc' = [sub_pc EXCEPT ![r] = "done"]
    /\ sub_resp' = [sub_resp EXCEPT ![r] = Returned(201)]
    /\ UNCHANGED <<sub_job, jobs_table, queue, ufVars, h0Vars, gpuVars, h1Vars, envVars,
                   knnVars, rqVars, denVars>>

NextSubmit ==
    \/ \E r \in Invocations : SubThrow(r)
    \/ \E r \in Invocations : \E body \in RequestBodies : SubInvalid(r, body)
    \/ \E r \in Invocations : \E body \in RequestBodies : \E id \in JobIds :
           SubAccept(r, body, id)
    \/ \E r \in Invocations : SubPut(r)
    \/ \E r \in Invocations : SubSend(r)
    \/ \E r \in Invocations : SubAwaitRejects(r)
    \/ \E r \in Invocations : SubReturn(r)

SpecSubmit == InitSubmit /\ [][NextSubmit]_vars

\* the record and the message an invocation creates
HasRecord(id) == \E rec \in jobs_table : rec.jobId = id /\ rec.status = "PENDING"
HasMessage(id) == \E msg \in queue : msg.jobId = id

\* C24: whenever a message for a jobId is in the queue a PENDING record for
\* it is in the table; an invocation that answered 400 created neither a
\* record nor a message; an invocation that answered 201 created both
C24_RecordBeforeMessage ==
    /\ \A msg \in queue : HasRecord(msg.jobId)
    /\ \A r \in Invocations :
           sub_resp[r] = Returned(400) =>
               /\ sub_job[r] = NoJob
               /\ Cardinality(jobs_table) < MaxInv /\ Cardinality(queue) < MaxInv
    /\ \A rec \in jobs_table : \E r \in Invocations : sub_job[r].jobId = rec.jobId
    /\ \A r \in Invocations :
           sub_resp[r] = Returned(201) =>
               HasRecord(sub_job[r].jobId) /\ HasMessage(sub_job[r].jobId)

\* one invocation has answered 201, another 400
C24_Witness ==
    /\ \E r \in Invocations : sub_resp[r] = Returned(201) /\ HasMessage(sub_job[r].jobId)
    /\ \E r \in Invocations : sub_resp[r] = Returned(400)
    /\ Cardinality(jobs_table) = 1 /\ Cardinality(queue) = 1

\* ---------------------------------------------------------------------------
\* Claims about UnionFind: ranks and path halving
\* ---------------------------------------------------------------------------

Roots(parent) == {v \in DOMAIN parent : parent[v] = v}

\* the vertex k parent links above v
RECURSIVE Ancestor(_, _, _)
Ancestor(parent, v, k) == IF k = 0 THEN v ELSE Ancestor(parent, parent[v], k - 1)

\* what one call of unite did to the ranks: every root c that became a child
\* was attached to a root p of rank at least its own; p's rank went up by
\* one exactly when the two ranks were equal, and then birth[p] is not later
\* than birth[c]; no other rank changed
RankStep ==
    /\ \A c \in Roots(uf.parent) \ Roots(uf'.parent) :
           /\ uf'.parent[c] \in Roots(uf.parent)
           /\ uf.rank[c] <= uf.rank[uf'.parent[c]]
           /\ uf'.rank[uf'.parent[c]] =
                  IF uf.rank[c] = uf.rank[uf'.parent[c]]
                  THEN uf.rank[uf'.parent[c]] + 1 ELSE uf.rank[uf'.parent[c]]
           /\ uf.rank[c] = uf.rank[uf'.parent[c]]
                  => uf.birth[uf'.parent[c]] <= uf.birth[c]
    /\ \A v \in DOMAIN uf.rank :
           uf'.rank[v] # uf.rank[v] =>
               /\ v \in Roots(uf.parent)
               /\ \E c \in Roots(uf.parent) \ Roots(uf'.parent) : uf'.parent[c] = v

\* C25: in every unite call the root that becomes the child has a rank no
\* larger than the root that becomes the parent; a rank is incremented, by
\* one, only on a merge of two roots of equal rank, and the root incremented
\* is then the parent and the root with the earlier birth; the rank of a
\* non-root never changes
C25_UnionByRank == [][RankStep]_vars

\* a root of rank 2 over four vertices: merges of equal and of unequal ranks
\* have happened
C25_Witness ==
    \E r \in Roots(uf.parent) :
        /\ uf.rank[r] = 2
        /\ \E c \in DOMAIN uf.parent : c # r /\ uf.parent[c] = r /\ uf.rank[c] = 0
        /\ \E c \in DOMAIN uf.parent : c # r /\ uf.parent[c] = r /\ uf.rank[c] = 1

\* the parent array is a forest: every parent link stays inside the array
\* and n links lead from every vertex to a root
Forest(parent) ==
    /\ \A v \in DOMAIN parent : parent[v] \in DOMAIN parent
    /\ \A v \in DOMAIN parent : Ancestor(parent, v, n) \in Roots(parent)

\* the loop of find run for at most k iterations from x: the parent array,
\* the vertex reached and whether the loop has exited
RECURSIVE find_within(_, _, _)
find_within(parent, x, k) ==
    IF parent[x] = x THEN [parent |-> parent, at |-> x, exited |-> TRUE]
    ELSE IF k = 0 THEN [parent |-> parent, at |-> x, exited |-> FALSE]
    ELSE find_within([parent EXCEPT ![x] = parent[parent[x]]],
                     parent[parent[x]], k - 1)

\* a step that is one call of find changes no root of any vertex (so neither
\* the partition nor the roots) and no birth or rank
FindFrame ==
    (\E x \in 0..(n - 1) : uf' = [uf EXCEPT !.parent = find(uf.parent, x).parent])
        => /\ \A v \in 0..(n - 1) :
                  Ancestor(uf'.parent, v, n) = Ancestor(uf.parent, v, n)
           /\ Roots(uf'.parent) = Roots(uf.parent)
           /\ uf'.rank = uf.rank /\ uf'.birth = uf.birth

\* C26: after any sequence of find and unite calls the parent array is a
\* forest; find exits its loop within n iterations for every vertex and
\* returns the root of the vertex's tree; a find call changes neither the
\* root of any vertex nor any birth or rank
C26_FindKeepsForest ==
    /\ [](/\ Forest(uf.parent)
          /\ \A x \in 0..(n - 1) :
                 /\ find_within(uf.parent, x, n).exited
                 /\ find(uf.parent, x).root = Ancestor(uf.parent, x, n))
    /\ [][FindFrame]_vars

\* a tree of depth 2 that find has not yet halved
C26_Witness ==
    \E x \in 0..(n - 1) :
        /\ uf.parent[x] # x /\ uf.parent[uf.parent[x]] # uf.parent[x]
        /\ find(uf.parent, x).parent # uf.parent

\* ---------------------------------------------------------------------------
\* Claims about the boundary columns and the pivot table of
\* topo_gpu_persistence_h1
\* ---------------------------------------------------------------------------

\* the columns exist: the function is past line 127
H1HasColumns == h1_pc \in {"reduce", "done"} /\ Len(h1_tris) > 0

\* the columns are as lines 102-127 built them: no step of the loop of line
\* 135 has been taken
H1ColumnsBuilt ==
    /\ h1_pc = "reduce"
    /\ h1_red.col = 0 /\ h1_red.count = 0 /\ h1_red.xors = 0

\* the row of the edge joining u and v in the sorted edge array, whichever
\* way it is stored; {} when the array holds no such edge
EdgeRows(es, u, v) ==
    {r \in 0..(Len(es) - 1) : {es[r + 1].src, es[r + 1].dst} = {u, v}}

\* C27: when the call gets past its argument checks with m > 0 and t > 0,
\* the column built for every triangle holds exactly three distinct rows,
\* one for each of its edges (v0,v1), (v0,v2), (v1,v2) whatever the stored
\* orientation; no triangle gets a column with fewer than three entries
C27_ColumnsHaveThreeRows ==
    H1ColumnsBuilt =>
        \A c \in DOMAIN h1_red.boundary :
            /\ Len(h1_red.boundary[c]) = 3
            /\ Cardinality(Rows(h1_red.boundary[c])) = 3
            /\ \A pr \in {<<h1_tris[c + 1].v0, h1_tris[c + 1].v1>>,
                          <<h1_tris[c + 1].v0, h1_tris[c + 1].v2>>,
                          <<h1_tris[c + 1].v1, h1_tris[c + 1].v2>>} :
                   \E r \in Rows(h1_red.boundary[c]) :
                       r \in EdgeRows(h1_edges, pr[1], pr[2])

StrictlyDescending(c) == \A i \in 1..(Len(c) - 1) : c[i] > c[i + 1]

\* merge_columns on the columns a and b gives a strictly descending list of
\* the rows in exactly one of them, no longer than the two together
MergeIsSymDiff(a, b) ==
    /\ StrictlyDescending(merge_columns(a, b))
    /\ Rows(merge_columns(a, b)) = SymDiff(Rows(a), Rows(b))
    /\ Len(merge_columns(a, b)) <= Len(a) + Len(b)

\* a step that made a symmetric difference put the merge of the current
\* column and the owner of its pivot in the current column
XorStepMerges ==
    (h1_pc = "reduce" /\ h1_pc' = "reduce" /\ h1_red'.xors = h1_red.xors + 1)
        => /\ h1_red'.boundary[h1_red.col] =
                  merge_columns(h1_red.boundary[h1_red.col],
                      h1_red.boundary[h1_red.pivot_col[
                          pivot_row(h1_red.boundary[h1_red.col])]])
           /\ StrictlyDescending(h1_red'.boundary[h1_red.col])

\* C28: at every step every boundary column is a strictly descending list
\* (so without repeats, its first entry its largest row), and the merge of
\* two columns is again strictly descending, holds exactly the rows present
\* in one column and not the other and is no longer than the two together
C28_ColumnsStrictlyDescending ==
    /\ [](H1HasColumns =>
             /\ \A c \in DOMAIN h1_red.boundary :
                    /\ StrictlyDescending(h1_red.boundary[c])
                    /\ h1_red.boundary[c] # <<>> =>
                           pivot_row(h1_red.boundary[c]) = Max(Rows(h1_red.boundary[c]))
             /\ \A c, e \in DOMAIN h1_red.boundary :
                    MergeIsSymDiff(h1_red.boundary[c], h1_red.boundary[e]))
    /\ [][XorStepMerges]_vars

\* the reduction has replaced a column by a non-empty symmetric difference
C28_Witness ==
    /\ H1HasColumns /\ h1_red.xors > 0
    /\ \E c \in DOMAIN h1_red.boundary :
           /\ Len(h1_red.boundary[c]) = 2
           /\ boundary_column(h1_edges, h1_tris[c + 1]) # h1_red.boundary[c]
           /\ Len(boundary_column(h1_edges, h1_tris[c + 1])) = 3

\* 0 for an empty column, 1 + its pivot otherwise
PivotRank(column) == IF column = <<>> THEN 0 ELSE pivot_row(column) + 1

\* every step of the loops either moves to the next column or keeps the
\* column and lowers its pivot (or empties it) by adding the owner of the
\* pivot, a column of smaller index; the columns before the current one are
\* not modified
ReductionStep ==
    /\ (h1_pc = "reduce" /\ h1_pc' = "reduce") =>
           \/ h1_red'.col = h1_red.col + 1 /\ h1_red'.col <= Len(h1_tris)
           \/ /\ h1_red'.col = h1_red.col
              /\ PivotRank(h1_red'.boundary[h1_red.col])
                     < PivotRank(h1_red.boundary[h1_red.col])
              /\ h1_red.pivot_col[pivot_row(h1_red.boundary[h1_red.col])] >= 0
              /\ h1_red.pivot_col[pivot_row(h1_red.boundary[h1_red.col])] < h1_red.col
    /\ (h1_pc = "reduce") =>
           \A c \in DOMAIN h1_red.boundary :
               c < h1_red.col => h1_red'.boundary[c] = h1_red.boundary[c]

\* every registered owner is a column before the current one whose pivot is
\* the row it owns, and every column before the current one is empty or the
\* owner of its pivot
ColumnsSettled ==
    /\ h1_red.col <= Len(h1_tris)
    /\ h1_pc = "done" => h1_red.col = Len(h1_tris)
    /\ \A r \in DOMAIN h1_red.pivot_col :
           h1_red.pivot_col[r] >= 0 =>
               /\ h1_red.pivot_col[r] < h1_red.col
               /\ h1_red.boundary[h1_red.pivot_col[r]] # <<>>
               /\ pivot_row(h1_red.boundary[h1_red.pivot_col[r]]) = r
    /\ \A c \in DOMAIN h1_red.boundary :
           c < h1_red.col =>
               \/ h1_red.boundary[c] = <<>>
               \/ h1_red.pivot_col[pivot_row(h1_red.boundary[c])] = c

\* C29: the reduction loop terminates: every step moves to the next column
\* or strictly lowers the pivot of the current column (or empties it), so
\* the pair (columns left, pivot) decreases; the owner added is always an
\* earlier column that is no longer modified; every column ends empty or as
\* the registered owner of its pivot
C29_ReductionTerminates ==
    /\ [](H1HasColumns => ColumnsSettled)
    /\ [][ReductionStep]_vars

\* a finished reduction that added owners at least twice, emptied a column
\* and registered another
C29_Witness ==
    /\ h1_pc = "done" /\ Len(h1_tris) = 3 /\ h1_red.xors >= 2
    /\ \E c \in DOMAIN h1_red.boundary : h1_red.boundary[c] = <<>>
    /\ \E r \in DOMAIN h1_red.pivot_col : h1_red.pivot_col[r] = 1

\* the rows that have an owner
OwnedRows == {r \in DOMAIN h1_red.pivot_col : h1_red.pivot_col[r] >= 0}

\* a registered entry of the pivot table is not written again
OwnerKept ==
    (h1_pc = "reduce") =>
        \A r \in DOMAIN h1_red.pivot_col :
            h1_red.pivot_col[r] >= 0 => h1_red'.pivot_col[r] = h1_red.pivot_col[r]

\* C30: no column is the registered owner of two rows, a registered entry
\* of the pivot table is never overwritten, every column has written at
\* most one pair, and the number of pairs written is at most min(m, t): no
\* index from min(m, t) on of out_births and out_deaths is written
C30_PivotTableInjective ==
    /\ [](H1HasColumns =>
             /\ \A r, q \in OwnedRows :
                    h1_red.pivot_col[r] = h1_red.pivot_col[q] => r = q
             /\ h1_red.count = Cardinality(OwnedRows)
             /\ Len(h1_red.births) = h1_red.count
             /\ Len(h1_red.deaths) = h1_red.count
             /\ h1_red.count <= Len(h1_edges) /\ h1_red.count <= Len(h1_tris)
             /\ h1_pc = "done" => h1_out_count = h1_red.count)
    /\ [][OwnerKept]_vars

\* a finished reduction in which every triangle wrote a pair: the count has
\* reached min(m, t)
C30_Witness ==
    /\ h1_pc = "done" /\ Len(h1_tris) = 3 /\ Len(h1_edges) > 3
    /\ h1_out_count = 3 /\ Cardinality(OwnedRows) = 3

====
